---- MODULE Spec2Model ----
(***************************************************************************)
(* League tracker: the rank-delta arithmetic (storage.CalculateLPChange)   *)
(* and the per-player reconciliation cycle of the match tracker            *)
(* (bot.checkSummonerUpdates and what it calls in the storage layer).      *)
(*                                                                         *)
(* The specifications:                                                     *)
(*   SpecLP       the pure function CalculateLPChange on drawn inputs;     *)
(*   Spec         the poll cycles of the tracked players against an        *)
(*                upstream API whose state (rank, latest match) changes    *)
(*                between polls;                                           *)
(*   SpecStore    the storage entry points that record a match, called     *)
(*                repeatedly;                                              *)
(*   SpecRetry    utils.RetryWithBackoff around an operation that fails    *)
(*                or succeeds;                                             *)
(*   SpecRequest  riotapi.makeRequest against the responses of upstream    *)
(*                (SpecRequestFair: with the request always making         *)
(*                progress);                                               *)
(*   SpecLimiter  the callers of the client going through the shared rate  *)
(*                limiter;                                                 *)
(*   SpecTrack    the TrackMatches loop, the players of a cycle one after  *)
(*                the other, and Bot.Shutdown;                             *)
(*   SpecCommands the /add, /remove and /reset commands next to the        *)
(*                TrackMatches loop;                                       *)
(*   SpecSeason   the placement counters under a clock that crosses the    *)
(*                season boundaries;                                       *)
(*   SpecPoll     one checkSummonerUpdates with upstream changing between  *)
(*                its two reads;                                           *)
(*   SpecQuiet    poll cycles on matches that carry the end timestamp      *)
(*                upstream reports;                                        *)
(*   SpecLadder   poll cycles over several upstream changes inside one     *)
(*                division and between the apex tiers;                     *)
(*   SpecPlacement the poll cycles of a player added with an empty         *)
(*                placement tally.                                         *)
(***************************************************************************)
EXTENDS Integers, Sequences, FiniteSets, TLC

VARIABLES
    lpIn,        \* SpecLP: the arguments handed to CalculateLPChange
    lpOut,       \* SpecLP: the value it returned
    lpDone,      \* SpecLP: TRUE once the call returned
    riotRank,    \* upstream: the solo-queue league entry of each player
    riotLatest,  \* upstream: the latest ranked solo match of each player
    league,      \* table league_entries: per player, zero or one row
    matches,     \* table matches: per player, the set of rows
    lp_history,  \* table lp_history: per player, the rows in insertion order
    placement,   \* table placement_games: per player, the row of the season
    sent,        \* per guild, the embeds delivered to its channel
    events,      \* number of upstream changes so far
    failures,    \* number of cycles so far in which a call failed
    last,        \* the operation that ran last, with what it read
    retry,       \* SpecRetry: the state of one RetryWithBackoff call
    request,     \* SpecRequest: the state of one makeRequest call
    track,       \* SpecTrack: the TrackMatches goroutine and Bot.Shutdown
    gate,        \* SpecLimiter: the rate limiter and the calls that go through it
    summoners,   \* table summoners: the players that have a row
    guild_summoner_associations,  \* the table: pairs <<guild, player>>
    adding,      \* per player, the addLastMatchData goroutine /add started
    poll,        \* SpecPoll: a checkSummonerUpdates between its two reads
    clock,       \* SpecSeason: the date time.Now() gives
    placement_games  \* SpecSeason: table placement_games, by season

vars == <<lpIn, lpOut, lpDone, riotRank, riotLatest, league, matches,
          lp_history, placement, sent, events, failures, last, retry, request,
          track, gate, summoners, guild_summoner_associations, adding, poll,
          clock, placement_games>>

engineVars == <<riotRank, riotLatest, league, matches, lp_history,
                placement, sent, events, failures, last>>

lpVars == <<lpIn, lpOut, lpDone>>

retryVars == <<retry, request>>

\* No RetryWithBackoff call and no makeRequest call is under way.
NoRetry == [pc |-> "idle"]

NoRequest == [pc |-> "idle"]

trackVars == <<track, gate>>

\* TrackMatches is not running; no client and no limiter was made.
NoTrack == [pc |-> "idle"]

NoGate == [pc |-> "idle"]

\* The associations /add made before the tracker is looked at: the first
\* player is watched by both guilds, the second by one; both have a row.
DefaultAssociations == {<<"g1", "p1">>, <<"g2", "p1">>, <<"g1", "p2">>}

DefaultSummoners == {"p1", "p2"}

\* No addLastMatchData goroutine is running.
NoAdding == {}

\* No row in placement_games is looked at by season.
NoSeasons == <<>>

cmdVars == <<summoners, guild_summoner_associations, adding>>

seasonVars == <<clock, placement_games>>

\* No checkSummonerUpdates is between its reads; no date is read.
NoPoll == [pc |-> "idle"]

NoClock == [pc |-> "idle"]

(***************************************************************************)
(* Bounds of the model.                                                    *)
(***************************************************************************)
MaxMatches == 2     \* ranked games a player has played upstream
MaxEvents == 1      \* upstream changes (games, rank moves) over all players
MaxHistory == 3     \* lp_history rows per player
MaxFailures == 1    \* cycles in which a storage, upstream or delivery call fails

(***************************************************************************)
(* Strings.  strings.ToUpper on the strings the model draws: the tiers     *)
(* and divisions as the API spells them, and lower/mixed-case spellings.   *)
(***************************************************************************)
ToUpper(s) ==
    CASE s = "gold" -> "GOLD"
      [] s = "Master" -> "MASTER"
      [] s = "iv" -> "IV"
      [] OTHER -> s

(***************************************************************************)
(* utils.GetRankValue: "I" is the best division (4), "IV" the weakest (1), *)
(* anything else 0.                                                        *)
(***************************************************************************)
GetRankValueSwapped(rank) ==
    CASE ToUpper(rank) = "I" -> 1
      [] ToUpper(rank) = "II" -> 2
      [] ToUpper(rank) = "III" -> 3
      [] ToUpper(rank) = "IV" -> 4
      [] OTHER -> 0

GetRankValue(rank) ==
    CASE ToUpper(rank) = "I" -> 4
      [] ToUpper(rank) = "II" -> 3
      [] ToUpper(rank) = "III" -> 2
      [] ToUpper(rank) = "IV" -> 1
      [] OTHER -> 0

(***************************************************************************)
(* storage.tierOrder, a Go map: a key that is absent reads as 0.           *)
(***************************************************************************)
tierOrderNoEmerald(tier) ==
    CASE tier = "IRON" -> 0
      [] tier = "BRONZE" -> 1
      [] tier = "SILVER" -> 2
      [] tier = "GOLD" -> 3
      [] tier = "PLATINUM" -> 4
      [] tier = "DIAMOND" -> 5
      [] tier = "MASTER" -> 6
      [] tier = "GRANDMASTER" -> 7
      [] tier = "CHALLENGER" -> 8
      [] OTHER -> 0

tierOrder(tier) ==
    CASE tier = "IRON" -> 0
      [] tier = "BRONZE" -> 1
      [] tier = "SILVER" -> 2
      [] tier = "GOLD" -> 3
      [] tier = "PLATINUM" -> 4
      [] tier = "EMERALD" -> 5
      [] tier = "DIAMOND" -> 6
      [] tier = "MASTER" -> 7
      [] tier = "GRANDMASTER" -> 8
      [] tier = "CHALLENGER" -> 9
      [] OTHER -> 0

highTiers == {"MASTER", "GRANDMASTER", "CHALLENGER"}

(***************************************************************************)
(* storage.CalculateLPChange.                                              *)
(***************************************************************************)
CalculateLPChangeNoApex(oldTier, newTier, oldRank, newRank, oldLP, newLP) ==
    LET ot == ToUpper(oldTier)
        nt == ToUpper(newTier)
        oldDivision == GetRankValue(oldRank)
        newDivision == GetRankValue(newRank)
    IN  IF ot # nt
        THEN IF tierOrder(nt) > tierOrder(ot)
             THEN (100 - oldLP) + newLP
             ELSE (0 - oldLP) - (100 - newLP)
        ELSE IF oldDivision # newDivision
        THEN IF newDivision > oldDivision
             THEN (100 - oldLP) + newLP
             ELSE (0 - oldLP) - (100 - newLP)
        ELSE newLP - oldLP

CalculateLPChangeCaseSensitive(oldTier, newTier, oldRank, newRank, oldLP, newLP) ==
    IF oldTier \in highTiers /\ newTier \in highTiers
    THEN newLP - oldLP
    ELSE LET oldDivision == GetRankValue(oldRank)
             newDivision == GetRankValue(newRank)
         IN  IF oldTier # newTier
             THEN IF tierOrder(newTier) > tierOrder(oldTier)
                  THEN (100 - oldLP) + newLP
                  ELSE (0 - oldLP) - (100 - newLP)
             ELSE IF oldDivision # newDivision
             THEN IF newDivision > oldDivision
                  THEN (100 - oldLP) + newLP
                  ELSE (0 - oldLP) - (100 - newLP)
             ELSE newLP - oldLP

CalculateLPChange(oldTier, newTier, oldRank, newRank, oldLP, newLP) ==
    LET ot == ToUpper(oldTier)
        nt == ToUpper(newTier)
    IN  IF ot \in highTiers /\ nt \in highTiers
        THEN newLP - oldLP
        ELSE LET oldDivision == GetRankValue(oldRank)
                 newDivision == GetRankValue(newRank)
             IN  IF ot # nt
                 THEN IF tierOrder(nt) > tierOrder(ot)
                      THEN (100 - oldLP) + newLP
                      ELSE (0 - oldLP) - (100 - newLP)
                 ELSE IF oldDivision # newDivision
                 THEN IF newDivision > oldDivision
                      THEN (100 - oldLP) + newLP
                      ELSE (0 - oldLP) - (100 - newLP)
                 ELSE newLP - oldLP

(***************************************************************************)
(* SpecLP: CalculateLPChange on drawn arguments.  The tier strings are the *)
(* ten tiers of tierOrder, the UNRANKED marker of GetSummonerRank, the     *)
(* empty string and two other spellings; the divisions are the four        *)
(* divisions, the empty string of the apex tiers and a lower-case          *)
(* spelling; the league points cover 0, 100 and values above 100.          *)
(***************************************************************************)
TierStrings ==
    {"IRON", "BRONZE", "SILVER", "GOLD", "PLATINUM", "EMERALD", "DIAMOND",
     "MASTER", "GRANDMASTER", "CHALLENGER", "UNRANKED", "", "gold", "Master"}

RankStrings == {"I", "II", "III", "IV", "", "iv"}

LPSamples == {0, 10, 20, 40, 55, 80, 90, 95, 100, 150, 200}

NoArgs ==
    [oldTier |-> "", newTier |-> "", oldRank |-> "", newRank |-> "",
     oldLP |-> 0, newLP |-> 0]

LPArgs ==
    [oldTier : TierStrings, newTier : TierStrings,
     oldRank : RankStrings, newRank : RankStrings,
     oldLP : LPSamples, newLP : LPSamples]

InitLP ==
    /\ lpIn \in LPArgs
    /\ lpOut = 0
    /\ lpDone = FALSE
    /\ riotRank = <<>>
    /\ riotLatest = <<>>
    /\ league = <<>>
    /\ matches = <<>>
    /\ lp_history = <<>>
    /\ placement = <<>>
    /\ sent = <<>>
    /\ events = 0
    /\ failures = 0
    /\ last = <<>>
    /\ retry = NoRetry
    /\ request = NoRequest
    /\ track = NoTrack
    /\ gate = NoGate
    /\ summoners = DefaultSummoners
    /\ guild_summoner_associations = DefaultAssociations
    /\ adding = NoAdding
    /\ poll = NoPoll
    /\ clock = NoClock
    /\ placement_games = NoSeasons

CallCalculateLPChange ==
    /\ ~lpDone
    /\ lpOut' = CalculateLPChange(lpIn.oldTier, lpIn.newTier, lpIn.oldRank,
                                  lpIn.newRank, lpIn.oldLP, lpIn.newLP)
    /\ lpDone' = TRUE
    /\ UNCHANGED <<lpIn, engineVars, retryVars, trackVars, cmdVars, seasonVars, poll>>

NextLP == CallCalculateLPChange

SpecLP == InitLP /\ [][NextLP]_vars

(***************************************************************************)
(* The tracked players, the guilds that watch them, the values upstream    *)
(* can report.                                                             *)
(***************************************************************************)
Players == {"p1", "p2"}

Guilds == {"g1", "g2"}

\* array_agg(gsa.guild_id) of selectSummonerInGuildSQL for the player.
guildIDsOf(assoc, p) ==
    SelectSeq(<<"g1", "g2">>, LAMBDA g : <<g, p>> \in assoc)

\* SummonerWithGuilds.GuildIDs, as GetAllSummonersWithGuilds returns them.
GuildIDs(p) == guildIDsOf(guild_summoner_associations, p)

MatchIDs == <<"EUW1_1", "EUW1_2", "EUW1_3", "EUW1_4">>

\* GameDuration of a ranked game, in seconds, on both sides of the remake limit.
Durations == {209, 210}

\* The games upstream can report for each player, as <<duration, win>>: a
\* remake (whose result the tracker never reads), a win and a loss.
GamesOf(p) ==
    IF p = "p1" THEN {<<209, FALSE>>, <<210, TRUE>>, <<210, FALSE>>}
    ELSE {<<210, TRUE>>}

\* The league entry GetSummonerRank builds when no solo-queue entry exists.
UnrankedEntry == [tier |-> "UNRANKED", rank |-> "", lp |-> 0]

RankSamples ==
    {UnrankedEntry,
     [tier |-> "GOLD", rank |-> "IV", lp |-> 80],
     [tier |-> "GOLD", rank |-> "III", lp |-> 20],
     [tier |-> "PLATINUM", rank |-> "IV", lp |-> 10]}

\* What upstream reports for each player: the second player moves between
\* fewer ranks, to keep the product of the two players' states small.
RanksOf(p) ==
    IF p = "p1" THEN RankSamples
    ELSE {UnrankedEntry, [tier |-> "GOLD", rank |-> "IV", lp |-> 80]}

\* No ranked game upstream / no row in matches: GetLastMatchID gives "".
NoMatch == [id |-> "", endTs |-> 0, duration |-> 0, win |-> FALSE]

NoRank == [tier |-> "", rank |-> "", lp |-> 0]

NoTally == [total_games |-> 0, wins |-> 0, losses |-> 0]

\* The storage or upstream call of a cycle that fails, if any.
FailPoints ==
    {"none", "lookup", "fetchRank", "checkMatch", "increment", "insertMatch",
     "lpHistory", "updateLeague", "getPlacement"}

(***************************************************************************)
(* The storage layer.  db is the record of the four tables.  Every         *)
(* statement runs on s.db, outside the transaction the callers open, so    *)
(* each write is in effect as soon as it is made.                          *)
(***************************************************************************)
DB ==
    [league |-> league, matches |-> matches, lp_history |-> lp_history,
     placement |-> placement]

\* insertMatchDataSQL: ON CONFLICT (summoner_id, match_id) DO NOTHING.
insertMatchData(db, p, m) ==
    [db EXCEPT !.matches[p] =
        IF \E r \in @ : r.id = m.id THEN @ ELSE @ \cup {m}]

\* insertLDataInLPHistorySQL: a plain INSERT, no uniqueness.
CreateNewRowInLPHistory(db, p, matchID, lpChange, newLP, tier, rank) ==
    [db EXCEPT !.lp_history[p] =
        Append(@, [match_id |-> matchID, lp_change |-> lpChange,
                   new_lp |-> newLP, tier |-> tier, rank |-> rank])]

\* updateLeagueEntriesSQL: an UPDATE of the player's row, if there is one.
UpdateLeagueEntry(db, p, newLP, newTier, newRank) ==
    [db EXCEPT !.league[p] =
        IF @ = <<>> THEN @
        ELSE <<[tier |-> newTier, rank |-> newRank, lp |-> newLP]>>]

\* selectRankInLeagueEntriesSQL: the row, or nil (the empty sequence).
GetPreviousRank(db, p) == db.league[p]

\* selectLastMatchIDSQL: ORDER BY game_end_timestamp DESC LIMIT 1, or "".
GetLastMatchID(db, p) ==
    IF db.matches[p] = {} THEN ""
    ELSE (CHOOSE r \in db.matches[p] :
             \A q \in db.matches[p] : q.endTs <= r.endTs).id

\* placement_games: CONSTRAINT max_games CHECK (total_games <= 5).
MaxPlacementGames == 5

\* GameDuration < 210 is a remake.
RemakeDuration == 210

IncrementPlacementGamesWinOnly(db, p, isWin) ==
    LET old == IF db.placement[p] = <<>> THEN NoTally ELSE db.placement[p][1]
        new == [total_games |-> old.total_games + 1, wins |-> old.wins + 1,
                losses |-> old.losses]
    IN  IF new.total_games > MaxPlacementGames
        THEN [db |-> db, err |-> TRUE]
        ELSE [db |-> [db EXCEPT !.placement[p] = <<new>>], err |-> FALSE]

IncrementPlacementGamesNoCheck(db, p, isWin) ==
    LET old == IF db.placement[p] = <<>> THEN NoTally ELSE db.placement[p][1]
        new == [total_games |-> old.total_games + 1,
                wins |-> old.wins + (IF isWin THEN 1 ELSE 0),
                losses |-> old.losses + (IF isWin THEN 0 ELSE 1)]
    IN  [db |-> [db EXCEPT !.placement[p] = <<new>>], err |-> FALSE]

\* IncrementPlacementGames: insert the season's row or add one game to it;
\* err when the CHECK constraint rejects the new total.
IncrementPlacementGames(db, p, isWin) ==
    LET old == IF db.placement[p] = <<>> THEN NoTally ELSE db.placement[p][1]
        new == [total_games |-> old.total_games + 1,
                wins |-> old.wins + (IF isWin THEN 1 ELSE 0),
                losses |-> old.losses + (IF isWin THEN 0 ELSE 1)]
    IN  IF new.total_games > MaxPlacementGames
        THEN [db |-> db, err |-> TRUE]
        ELSE [db |-> [db EXCEPT !.placement[p] = <<new>>], err |-> FALSE]

\* GetCurrentPlacementGames: the season's row, or a zero tally.
GetCurrentPlacementGames(db, p) ==
    IF db.placement[p] = <<>> THEN NoTally ELSE db.placement[p][1]

(***************************************************************************)
(* AddMatchAndGetLPChange: insert the match, read the stored rank, compute *)
(* the delta, append the lp_history row, update the league entry.          *)
(***************************************************************************)
AddMatchAndGetLPChangeUpdateFirst(db, p, m, newLP, newRank, newTier, fail) ==
    IF fail = "insertMatch" THEN [db |-> db, lpChange |-> 0, err |-> TRUE]
    ELSE
    LET db1 == UpdateLeagueEntry(insertMatchData(db, p, m), p, newLP, newTier, newRank)
        prev == GetPreviousRank(db1, p)[1]
        lpChange == CalculateLPChange(prev.tier, newTier, prev.rank, newRank,
                                      prev.lp, newLP)
        db2 == CreateNewRowInLPHistory(db1, p, m.id, lpChange, newLP, newTier, newRank)
    IN  [db |-> db2, lpChange |-> lpChange, err |-> FALSE]

AddMatchAndGetLPChangeNoLeagueUpdate(db, p, m, newLP, newRank, newTier, fail) ==
    IF fail = "insertMatch" THEN [db |-> db, lpChange |-> 0, err |-> TRUE]
    ELSE
    LET db1 == insertMatchData(db, p, m)
        prev == GetPreviousRank(db1, p)[1]
        lpChange == CalculateLPChange(prev.tier, newTier, prev.rank, newRank,
                                      prev.lp, newLP)
        db2 == CreateNewRowInLPHistory(db1, p, m.id, lpChange, newLP, newTier, newRank)
    IN  IF fail = "lpHistory" THEN [db |-> db1, lpChange |-> 0, err |-> TRUE]
        ELSE IF fail = "updateLeague" THEN [db |-> db2, lpChange |-> 0, err |-> TRUE]
        ELSE [db |-> db2, lpChange |-> lpChange, err |-> FALSE]

AddMatchAndGetLPChange(db, p, m, newLP, newRank, newTier, fail) ==
    IF fail = "insertMatch" THEN [db |-> db, lpChange |-> 0, err |-> TRUE]
    ELSE
    LET db1 == insertMatchData(db, p, m)
        prev == GetPreviousRank(db1, p)[1]
        lpChange == CalculateLPChange(prev.tier, newTier, prev.rank, newRank,
                                      prev.lp, newLP)
        db2 == CreateNewRowInLPHistory(db1, p, m.id, lpChange, newLP, newTier, newRank)
        db3 == UpdateLeagueEntry(db2, p, newLP, newTier, newRank)
    IN  IF fail = "lpHistory" THEN [db |-> db1, lpChange |-> 0, err |-> TRUE]
        ELSE IF fail = "updateLeague" THEN [db |-> db2, lpChange |-> 0, err |-> TRUE]
        ELSE [db |-> db3, lpChange |-> lpChange, err |-> FALSE]

(***************************************************************************)
(* AddPlacementMatch: insert the match and an lp_history row that carries  *)
(* the match id, delta 0 and the UNRANKED rank.                            *)
(***************************************************************************)
AddPlacementMatch(db, p, m, fail) ==
    IF fail = "insertMatch" THEN [db |-> db, err |-> TRUE]
    ELSE
    LET db1 == insertMatchData(db, p, m)
        db2 == CreateNewRowInLPHistory(db1, p, m.id, 0, 0, "UNRANKED", "")
    IN  IF fail = "lpHistory" THEN [db |-> db1, err |-> TRUE]
        ELSE [db |-> db2, err |-> FALSE]

(***************************************************************************)
(* The embeds.  An embed is what the four prepare...Embed functions put in *)
(* it: its kind, the delta, the match, the rank and the placement tally.   *)
(***************************************************************************)
Embed(kind, p, lpChange, matchID, rank, tally) ==
    [kind |-> kind, player |-> p, lp_change |-> lpChange, match_id |-> matchID,
     tier |-> rank.tier, rank |-> rank.rank, lp |-> rank.lp,
     total_games |-> tally.total_games, wins |-> tally.wins,
     losses |-> tally.losses]

prepareMatchEmbed(p, m, cur, lpChange) ==
    Embed("ranked-match", p, lpChange, m.id, cur, NoTally)

prepareRankChangeEmbed(p, cur, lpChange) ==
    Embed("rank-change", p, lpChange, "", cur, NoTally)

preparePlacementMatchEmbed(p, m, tally) ==
    Embed("placement-progress", p, 0, m.id, NoRank, tally)

preparePlacementCompletionEmbed(p, m, tally, cur) ==
    Embed("placement-completed", p, 0, m.id, cur, tally)

(***************************************************************************)
(* processRankChange: the rank moved and no new match was found.  Storage  *)
(* errors are logged and the function goes on.                             *)
(***************************************************************************)
processRankChangeNoUpdate(db, p, prevRow, cur, fail) ==
    LET prev == prevRow[1]
        lpChange == CalculateLPChange(prev.tier, cur.tier, prev.rank, cur.rank,
                                      prev.lp, cur.lp)
        db2 == IF fail = "lpHistory" THEN db
               ELSE CreateNewRowInLPHistory(db, p, "DODGE", lpChange, cur.lp,
                                            cur.tier, cur.rank)
    IN  [db |-> db2, embeds |-> <<prepareRankChangeEmbed(p, cur, lpChange)>>]

processRankChange(db, p, prevRow, cur, fail) ==
    LET prev == prevRow[1]
        lpChange == CalculateLPChange(prev.tier, cur.tier, prev.rank, cur.rank,
                                      prev.lp, cur.lp)
        db1 == IF fail = "updateLeague" THEN db
               ELSE UpdateLeagueEntry(db, p, cur.lp, cur.tier, cur.rank)
        db2 == IF fail = "lpHistory" THEN db1
               ELSE CreateNewRowInLPHistory(db1, p, "DODGE", lpChange, cur.lp,
                                            cur.tier, cur.rank)
    IN  [db |-> db2, embeds |-> <<prepareRankChangeEmbed(p, cur, lpChange)>>]

(***************************************************************************)
(* processNewMatch: a new match was found.  The placement path when the    *)
(* stored rank is nil or UNRANKED with an empty division, the ranked path  *)
(* otherwise.  A storage error ends the function (except the league-entry  *)
(* update of a placement completion, which is only logged).                *)
(***************************************************************************)
wasInPlacements(prevRow) ==
    prevRow = <<>> \/ (prevRow[1].tier = "UNRANKED" /\ prevRow[1].rank = "")

processPlacementMatchRankOnly(db, p, m, cur, fail) ==
    LET isRemake == m.duration < RemakeDuration
        inc == IF isRemake THEN [db |-> db, err |-> FALSE]
               ELSE IF fail = "increment" THEN [db |-> db, err |-> TRUE]
               ELSE IncrementPlacementGames(db, p, m.win)
        add == AddPlacementMatch(inc.db, p, m, fail)
        tally == GetCurrentPlacementGames(add.db, p)
        completed == cur.tier # "UNRANKED"
        db3 == IF completed /\ fail # "updateLeague"
               THEN UpdateLeagueEntry(add.db, p, cur.lp, cur.tier, cur.rank)
               ELSE add.db
    IN  IF inc.err THEN [db |-> inc.db, embeds |-> <<>>]
        ELSE IF add.err THEN [db |-> add.db, embeds |-> <<>>]
        ELSE IF fail = "getPlacement" THEN [db |-> add.db, embeds |-> <<>>]
        ELSE [db |-> db3,
              embeds |-> IF completed
                         THEN <<preparePlacementCompletionEmbed(p, m, tally, cur)>>
                         ELSE <<preparePlacementMatchEmbed(p, m, tally)>>]

processPlacementMatchNoLeagueUpdate(db, p, m, cur, fail) ==
    LET isRemake == m.duration < RemakeDuration
        inc == IF isRemake THEN [db |-> db, err |-> FALSE]
               ELSE IF fail = "increment" THEN [db |-> db, err |-> TRUE]
               ELSE IncrementPlacementGames(db, p, m.win)
        add == AddPlacementMatch(inc.db, p, m, fail)
        tally == GetCurrentPlacementGames(add.db, p)
        completed == cur.tier # "UNRANKED" \/ tally.total_games = MaxPlacementGames
    IN  IF inc.err THEN [db |-> inc.db, embeds |-> <<>>]
        ELSE IF add.err THEN [db |-> add.db, embeds |-> <<>>]
        ELSE IF fail = "getPlacement" THEN [db |-> add.db, embeds |-> <<>>]
        ELSE [db |-> add.db,
              embeds |-> IF completed
                         THEN <<preparePlacementCompletionEmbed(p, m, tally, cur)>>
                         ELSE <<preparePlacementMatchEmbed(p, m, tally)>>]

processPlacementMatch(db, p, m, cur, fail) ==
    LET isRemake == m.duration < RemakeDuration
        inc == IF isRemake THEN [db |-> db, err |-> FALSE]
               ELSE IF fail = "increment" THEN [db |-> db, err |-> TRUE]
               ELSE IncrementPlacementGames(db, p, m.win)
        add == AddPlacementMatch(inc.db, p, m, fail)
        tally == GetCurrentPlacementGames(add.db, p)
        completed == cur.tier # "UNRANKED" \/ tally.total_games = MaxPlacementGames
        db3 == IF completed /\ fail # "updateLeague"
               THEN UpdateLeagueEntry(add.db, p, cur.lp, cur.tier, cur.rank)
               ELSE add.db
    IN  IF inc.err THEN [db |-> inc.db, embeds |-> <<>>]
        ELSE IF add.err THEN [db |-> add.db, embeds |-> <<>>]
        ELSE IF fail = "getPlacement" THEN [db |-> add.db, embeds |-> <<>>]
        ELSE [db |-> db3,
              embeds |-> IF completed
                         THEN <<preparePlacementCompletionEmbed(p, m, tally, cur)>>
                         ELSE <<preparePlacementMatchEmbed(p, m, tally)>>]

processNewMatch(db, p, m, prevRow, cur, fail) ==
    IF wasInPlacements(prevRow)
    THEN processPlacementMatch(db, p, m, cur, fail)
    ELSE LET add == AddMatchAndGetLPChange(db, p, m, cur.lp, cur.rank, cur.tier, fail)
         IN  IF add.err THEN [db |-> add.db, embeds |-> <<>>]
             ELSE [db |-> add.db,
                   embeds |-> <<prepareMatchEmbed(p, m, cur, add.lpChange)>>]

(***************************************************************************)
(* hasRankChanged and GetNewMatchForSummoner.                              *)
(***************************************************************************)
hasRankChangedAlways(prevRow, cur) == TRUE

hasRankChanged(prevRow, cur) ==
    IF prevRow = <<>> THEN TRUE
    ELSE \/ prevRow[1].tier # cur.tier
         \/ prevRow[1].rank # cur.rank
         \/ prevRow[1].lp # cur.lp

\* TRUE iff upstream has a latest match and its id is not the stored one.
GetNewMatchForSummoner(latest, lastKnownMatchID) ==
    latest # NoMatch /\ latest.id # lastKnownMatchID

(***************************************************************************)
(* announceNewMatch, for every guild of the player in turn: the embed      *)
(* reaches the channel of each guild whose delivery does not fail.         *)
(***************************************************************************)
announceAllStopAtFailure(out, p, embeds, down) ==
    [g \in Guilds |->
        IF /\ embeds # <<>>
           /\ \E i \in DOMAIN GuildIDs(p) :
                 /\ GuildIDs(p)[i] = g
                 /\ \A j \in 1..i : GuildIDs(p)[j] \notin down
        THEN Append(out[g], embeds[1])
        ELSE out[g]]

announceGuildsFirstOnly(out, guildIDs, embeds, down) ==
    [g \in Guilds |->
        IF embeds # <<>> /\ g \notin down /\ guildIDs # <<>> /\ guildIDs[1] = g
        THEN Append(out[g], embeds[1])
        ELSE out[g]]

\* The loop over summoner.GuildIDs: one announceNewMatch per entry of the
\* list the player was loaded with.
announceGuilds(out, guildIDs, embeds, down) ==
    [g \in Guilds |->
        IF embeds # <<>> /\ g \notin down
        THEN out[g] \o [k \in 1..Cardinality({i \in DOMAIN guildIDs : guildIDs[i] = g})
                           |-> embeds[1]]
        ELSE out[g]]

announceAll(out, p, embeds, down) == announceGuilds(out, GuildIDs(p), embeds, down)

(***************************************************************************)
(* checkSummonerUpdates: one poll of one player.  reconcile is what it     *)
(* does once the reads succeeded.                                          *)
(***************************************************************************)
reconcileBoth(db, p, found, m, prevRow, cur, fail) ==
    LET a == IF found THEN processNewMatch(db, p, m, prevRow, cur, fail)
             ELSE [db |-> db, embeds |-> <<>>]
    IN  IF hasRankChanged(prevRow, cur)
        THEN LET b == processRankChange(a.db, p, prevRow, cur, fail)
             IN  [db |-> b.db, embeds |-> a.embeds \o b.embeds]
        ELSE a

reconcile(db, p, found, m, prevRow, cur, fail) ==
    IF found
    THEN processNewMatch(db, p, m, prevRow, cur, fail)
    ELSE IF hasRankChanged(prevRow, cur)
    THEN processRankChange(db, p, prevRow, cur, fail)
    ELSE [db |-> db, embeds |-> <<>>]

\* The calls a cycle makes after its reads, by the path it takes: a call
\* that is not made cannot fail.
CallsMade(found, prevRow, cur) ==
    IF found /\ wasInPlacements(prevRow)
    THEN {"increment", "insertMatch", "lpHistory", "getPlacement", "updateLeague"}
    ELSE IF found THEN {"insertMatch", "lpHistory", "updateLeague"}
    ELSE IF hasRankChanged(prevRow, cur) THEN {"updateLeague", "lpHistory"}
    ELSE {}

checkSummonerUpdatesWriteFirst(p, fail, down) ==
    LET prevRow == GetPreviousRank(DB, p)
        cur == riotRank[p]
        found == GetNewMatchForSummoner(riotLatest[p], GetLastMatchID(DB, p))
        m == riotLatest[p]
        readsFail == fail \in {"lookup", "fetchRank"}
    IN  /\ Len(lp_history[p]) < MaxHistory
        /\ league[p] # <<>>
        /\ fail \in {"none", "lookup", "fetchRank", "checkMatch"}
                        \cup CallsMade(found, prevRow, cur)
        /\ (fail # "none" \/ down # {}) => failures < MaxFailures
        /\ \E r \in {IF readsFail THEN [db |-> DB, embeds |-> <<>>]
                      ELSE reconcile(DB, p, found /\ fail # "checkMatch", m,
                                     prevRow, cur, fail)} :
              /\ r.embeds = <<>> => down = {}
              /\ failures' = IF fail # "none" \/ down # {} THEN failures + 1 ELSE failures
              /\ league' = r.db.league
              /\ matches' = r.db.matches
              /\ lp_history' = r.db.lp_history
              /\ placement' = r.db.placement
              /\ sent' = announceAll(sent, p, r.embeds, down)
              /\ last' = [op |-> "cycle", p |-> p, fail |-> fail, down |-> down,
                          prev |-> prevRow, cur |-> cur, found |-> found /\ ~readsFail,
                          match |-> m, pre |-> DB, preSent |-> sent,
                          err |-> CASE fail = "fetchRank" -> "retryable"
                                    [] fail \in {"lookup", "checkMatch"} -> "nonretryable"
                                    [] OTHER -> "none"]
              /\ UNCHANGED <<riotRank, riotLatest, events, lpVars, retryVars, trackVars,
                  cmdVars, seasonVars, poll>>

checkSummonerUpdates(p, fail, down) ==
    LET prevRow == GetPreviousRank(DB, p)
        cur == riotRank[p]
        found == GetNewMatchForSummoner(riotLatest[p], GetLastMatchID(DB, p))
        m == riotLatest[p]
        readsFail == fail \in {"lookup", "fetchRank", "checkMatch"}
    IN  /\ Len(lp_history[p]) < MaxHistory
        /\ league[p] # <<>>
        /\ fail \in {"none", "lookup", "fetchRank", "checkMatch"}
                        \cup CallsMade(found, prevRow, cur)
        /\ (fail # "none" \/ down # {}) => failures < MaxFailures
        /\ \E r \in {IF readsFail THEN [db |-> DB, embeds |-> <<>>]
                      ELSE reconcile(DB, p, found, m, prevRow, cur, fail)} :
              /\ r.embeds = <<>> => down = {}
              /\ failures' = IF fail # "none" \/ down # {} THEN failures + 1 ELSE failures
              /\ league' = r.db.league
              /\ matches' = r.db.matches
              /\ lp_history' = r.db.lp_history
              /\ placement' = r.db.placement
              /\ sent' = announceAll(sent, p, r.embeds, down)
              /\ last' = [op |-> "cycle", p |-> p, fail |-> fail, down |-> down,
                          prev |-> prevRow, cur |-> cur, found |-> found /\ ~readsFail,
                          match |-> m, pre |-> DB, preSent |-> sent,
                          err |-> CASE fail = "fetchRank" -> "retryable"
                                    [] fail \in {"lookup", "checkMatch"} -> "nonretryable"
                                    [] OTHER -> "none"]
              /\ UNCHANGED <<riotRank, riotLatest, events, lpVars, retryVars, trackVars,
                  cmdVars, seasonVars, poll>>

\* The record of the last step when that step was not a poll cycle.
NoCycle(op, p) ==
    [op |-> op, p |-> p, fail |-> "none", down |-> {}, prev |-> <<>>,
     cur |-> NoRank, found |-> FALSE, match |-> NoMatch,
     pre |-> [league |-> [q \in Players |-> <<>>],
              matches |-> [q \in Players |-> {}],
              lp_history |-> [q \in Players |-> <<>>],
              placement |-> [q \in Players |-> <<>>]],
     preSent |-> [g \in Guilds |-> <<>>], err |-> "none"]

(***************************************************************************)
(* Upstream: a player finishes a ranked game (a new latest match, and the  *)
(* rank upstream reports afterwards), or the rank moves with no game       *)
(* recorded (a dodge, decay, a season reset).                              *)
(***************************************************************************)
PlayGame(p, duration, win, newRank) ==
    /\ events < MaxEvents
    /\ riotLatest[p].endTs < MaxMatches
    /\ riotLatest' = [riotLatest EXCEPT ![p] =
            [id |-> MatchIDs[@.endTs + 1], endTs |-> @.endTs + 1,
             duration |-> duration, win |-> win]]
    /\ riotRank' = [riotRank EXCEPT ![p] = newRank]
    /\ events' = events + 1
    /\ last' = NoCycle("upstream", p)
    /\ UNCHANGED <<league, matches, lp_history, placement, sent, failures, lpVars, retryVars, trackVars,
        cmdVars, seasonVars, poll>>

RankMove(p, newRank) ==
    /\ events < MaxEvents
    /\ newRank # riotRank[p]
    /\ riotRank' = [riotRank EXCEPT ![p] = newRank]
    /\ events' = events + 1
    /\ last' = NoCycle("upstream", p)
    /\ UNCHANGED <<riotLatest, league, matches, lp_history, placement, sent,
                   failures, lpVars, retryVars, trackVars, cmdVars, seasonVars, poll>>

(***************************************************************************)
(* Init: the tables as /add leaves them.  AddSummoner stored the league    *)
(* entry upstream reported; addLastMatchData stored the latest ranked      *)
(* match, if the player had one, through AddMatchAndGetLPChange; a player  *)
(* added while UNRANKED got a placement_games row.                         *)
(***************************************************************************)
EmptyDB ==
    [league |-> [p \in Players |-> <<>>], matches |-> [p \in Players |-> {}],
     lp_history |-> [p \in Players |-> <<>>],
     placement |-> [p \in Players |-> <<>>]]

FirstMatch == [id |-> MatchIDs[1], endTs |-> 1, duration |-> 210, win |-> TRUE]

SeedTallies ==
    {NoTally, [total_games |-> 4, wins |-> 3, losses |-> 1],
     [total_games |-> 5, wins |-> 3, losses |-> 2]}

AddedDB(rank0, match0, tally0) ==
    LET d0 == [EmptyDB EXCEPT
                 !.league = [p \in Players |-> <<rank0[p]>>],
                 !.placement = [p \in Players |->
                     IF rank0[p] = UnrankedEntry THEN <<tally0[p]>> ELSE <<>>]]
        d1 == IF match0["p1"] = NoMatch THEN d0
              ELSE AddMatchAndGetLPChange(d0, "p1", match0["p1"], rank0["p1"].lp,
                       rank0["p1"].rank, rank0["p1"].tier, "none").db
        d2 == IF match0["p2"] = NoMatch THEN d1
              ELSE AddMatchAndGetLPChange(d1, "p2", match0["p2"], rank0["p2"].lp,
                       rank0["p2"].rank, rank0["p2"].tier, "none").db
    IN  d2

Init ==
    /\ lpIn = NoArgs
    /\ lpOut = 0
    /\ lpDone = FALSE
    /\ riotRank \in [Players -> RankSamples]
    /\ \A p \in Players : riotRank[p] \in RanksOf(p)
    /\ riotRank["p2"] # UnrankedEntry
    /\ riotLatest \in [Players -> {NoMatch, FirstMatch}]
    /\ \A p \in Players : riotRank[p] # UnrankedEntry => riotLatest[p] = FirstMatch
    /\ \E tally0 \in [Players -> SeedTallies] :
          /\ \A p \in Players : riotRank[p] # UnrankedEntry => tally0[p] = NoTally
          /\ \A p \in Players :
                (tally0[p] = NoTally) = (riotRank[p] # UnrankedEntry \/ riotLatest[p] = NoMatch)
          /\ LET d == AddedDB(riotRank, riotLatest, tally0)
             IN  /\ league = d.league
                 /\ matches = d.matches
                 /\ lp_history = d.lp_history
                 /\ placement = d.placement
    /\ sent = [g \in Guilds |-> <<>>]
    /\ events = 0
    /\ failures = 0
    /\ last = NoCycle("init", "p1")
    /\ retry = NoRetry
    /\ request = NoRequest
    /\ track = NoTrack
    /\ gate = NoGate
    /\ summoners = DefaultSummoners
    /\ guild_summoner_associations = DefaultAssociations
    /\ adding = NoAdding
    /\ poll = NoPoll
    /\ clock = NoClock
    /\ placement_games = NoSeasons

Next ==
    \/ \E p \in Players, fail \in FailPoints, down \in {{}, {"g1"}} :
          checkSummonerUpdates(p, fail, down)
    \/ \E p \in Players, g \in Durations \X BOOLEAN, r \in RankSamples :
          g \in GamesOf(p) /\ r \in RanksOf(p) /\ PlayGame(p, g[1], g[2], r)
    \/ \E p \in Players, r \in RankSamples : r \in RanksOf(p) /\ RankMove(p, r)

Spec == Init /\ [][Next]_vars

(***************************************************************************)
(* What the claims read of the cycle that ran last.                        *)
(***************************************************************************)
LastWasCycle == last.op = "cycle"

\* The rows the last cycle appended to the player's lp_history.
RowsAdded ==
    SubSeq(lp_history[last.p], Len(last.pre.lp_history[last.p]) + 1,
           Len(lp_history[last.p]))

\* The rows the last cycle inserted into matches for the player.
MatchesAdded == matches[last.p] \ last.pre.matches[last.p]

\* The id of the stored match with the greatest end timestamp before the
\* last cycle, "" when none was stored.
StoredLastID ==
    IF last.pre.matches[last.p] = {} THEN ""
    ELSE (CHOOSE r \in last.pre.matches[last.p] :
             \A q \in last.pre.matches[last.p] : q.endTs <= r.endTs).id

\* The guilds whose channel the last cycle's embed reached.
Reached == {GuildIDs(last.p)[i] : i \in DOMAIN GuildIDs(last.p)} \ last.down

\* The other players' rows are as before the last cycle.
OthersUntouched ==
    \A q \in Players \ {last.p} :
        /\ league[q] = last.pre.league[q]
        /\ matches[q] = last.pre.matches[q]
        /\ lp_history[q] = last.pre.lp_history[q]
        /\ placement[q] = last.pre.placement[q]

\* Every guild that was reached received exactly the embed e, the others nothing.
SentExactly(e) ==
    \A g \in Guilds :
        sent[g] = IF g \in Reached THEN Append(last.preSent[g], e)
                  ELSE last.preSent[g]

LadderDelta(old, new) ==
    CalculateLPChange(old.tier, new.tier, old.rank, new.rank, old.lp, new.lp)

C2_InferredSkipCycle ==
    (/\ LastWasCycle
     /\ ~last.found
     /\ last.fail = "none"
     /\ last.prev # <<>>
     /\ last.prev[1] # last.cur)
    => LET p == last.p
           old == last.pre.league[p][1]
           cur == last.cur
           delta == LadderDelta(old, cur)
       IN  /\ lp_history[p] =
                 Append(last.pre.lp_history[p],
                        [match_id |-> "DODGE", lp_change |-> delta,
                         new_lp |-> cur.lp, tier |-> cur.tier, rank |-> cur.rank])
           /\ league[p] = <<cur>>
           /\ matches[p] = last.pre.matches[p]
           /\ placement[p] = last.pre.placement[p]
           /\ SentExactly([kind |-> "rank-change", player |-> p,
                           lp_change |-> delta, match_id |-> "",
                           tier |-> cur.tier, rank |-> cur.rank, lp |-> cur.lp,
                           total_games |-> 0, wins |-> 0, losses |-> 0])
           /\ OthersUntouched

\* A ranked player with one stored match lost 60 LP with no new game: a DODGE
\* row is written and the matches table is as it was.
C2_Witness ==
    /\ LastWasCycle
    /\ ~last.found
    /\ last.fail = "none"
    /\ last.prev # <<>>
    /\ last.prev[1].tier = "GOLD"
    /\ last.cur.tier = "GOLD"
    /\ Len(RowsAdded) = 1
    /\ RowsAdded[1].match_id = "DODGE"
    /\ RowsAdded[1].lp_change # 0
    /\ MatchesAdded = {}
    /\ league[last.p] = <<last.cur>>

(***************************************************************************)
(* C3: a cycle in which the upstream latest match id equals the stored     *)
(* last match id and the fetched (tier, division, LP) equals the stored    *)
(* league entry writes no row to matches, lp_history, league_entries or    *)
(* placement_games and sends no announcement.                              *)
(***************************************************************************)
C3_QuietCycle ==
    (/\ LastWasCycle
     /\ last.match.id = StoredLastID
     /\ last.prev = <<last.cur>>)
    => /\ league = last.pre.league
       /\ matches = last.pre.matches
       /\ lp_history = last.pre.lp_history
       /\ placement = last.pre.placement
       /\ sent = last.preSent

\* A poll of a ranked player, after an earlier cycle stored a game and
\* announced it, that sees the same match and the same rank again.
C3_Witness ==
    /\ LastWasCycle
    /\ last.fail = "none"
    /\ last.match # NoMatch
    /\ last.match.id = StoredLastID
    /\ last.prev = <<last.cur>>
    /\ last.cur.tier # "UNRANKED"
    /\ Len(lp_history[last.p]) >= 2
    /\ \E g \in Guilds : Len(sent[g]) > 0
    /\ sent = last.preSent

(***************************************************************************)
(* C4: every cycle of every player, whichever call fails in it, appends at *)
(* most one lp_history row; that row carries either the id of a match that *)
(* is stored or the marker "DODGE"; a cycle that writes a "DODGE" row      *)
(* inserts no match, and a cycle inserts at most one match.                *)
(***************************************************************************)
C4_OneSnapshotPerCycle ==
    LastWasCycle =>
        /\ Len(lp_history[last.p]) >= Len(last.pre.lp_history[last.p])
        /\ SubSeq(lp_history[last.p], 1, Len(last.pre.lp_history[last.p]))
              = last.pre.lp_history[last.p]
        /\ Len(RowsAdded) <= 1
        /\ last.pre.matches[last.p] \subseteq matches[last.p]
        /\ Cardinality(MatchesAdded) <= 1
        /\ Len(RowsAdded) = 1 =>
              \/ /\ RowsAdded[1].match_id = "DODGE"
                 /\ MatchesAdded = {}
              \/ /\ RowsAdded[1].match_id # "DODGE"
                 /\ RowsAdded[1].match_id = last.match.id
                 /\ \E m \in matches[last.p] : m.id = RowsAdded[1].match_id
        /\ \A q \in Players \ {last.p} :
              lp_history[q] = last.pre.lp_history[q]

\* A cycle that found a new match while the fetched rank also differs from
\* the stored one (both branches could apply): it stored the match and one
\* row carrying the match id, and no DODGE row.
C4_Witness ==
    /\ LastWasCycle
    /\ last.found
    /\ last.prev # <<>>
    /\ last.prev # <<last.cur>>
    /\ Len(RowsAdded) = 1
    /\ RowsAdded[1].match_id = last.match.id
    /\ Cardinality(MatchesAdded) = 1
    /\ \A i \in DOMAIN lp_history[last.p] :
          lp_history[last.p][i].match_id # "DODGE"

(***************************************************************************)
(* The ladder as the claims state it, independently of tierOrder and       *)
(* GetRankValue, and the spelling of a tier or division whatever its case. *)
(***************************************************************************)
TierLadder ==
    <<"IRON", "BRONZE", "SILVER", "GOLD", "PLATINUM", "EMERALD", "DIAMOND",
      "MASTER", "GRANDMASTER", "CHALLENGER">>

DivisionLadder == <<"IV", "III", "II", "I">>

ApexTiers == {"MASTER", "GRANDMASTER", "CHALLENGER"}

Fold(str) ==
    IF str \in {"gold", "GOLD"} THEN "GOLD"
    ELSE IF str \in {"Master", "MASTER"} THEN "MASTER"
    ELSE IF str \in {"iv", "IV"} THEN "IV"
    ELSE str

IsTier(t) == \E i \in DOMAIN TierLadder : TierLadder[i] = Fold(t)

\* t is one of the ten tiers, spelled as the ladder spells it.
IsLadderTier(t) == \E i \in DOMAIN TierLadder : TierLadder[i] = t

IsDivision(d) == \E i \in DOMAIN DivisionLadder : DivisionLadder[i] = Fold(d)

TierPos(t) == CHOOSE i \in DOMAIN TierLadder : TierLadder[i] = Fold(t)

DivisionPos(d) == CHOOSE i \in DOMAIN DivisionLadder : DivisionLadder[i] = Fold(d)

BothApex == Fold(lpIn.oldTier) \in ApexTiers /\ Fold(lpIn.newTier) \in ApexTiers

Promotion == (100 - lpIn.oldLP) + lpIn.newLP

Demotion == (0 - lpIn.oldLP) - (100 - lpIn.newLP)

\* The points are valid for the tier: 0..100 in a divisioned tier, any
\* non-negative value in an apex tier.
ValidPoints(t, lp) == lp >= 0 /\ (Fold(t) \notin ApexTiers => lp <= 100)

(***************************************************************************)
(* C5: when the old and the new tier are two different tiers of the ladder *)
(* and not both apex, CalculateLPChange returns (100 - oldLP) + newLP if   *)
(* the new tier is higher in IRON < BRONZE < SILVER < GOLD < PLATINUM <    *)
(* EMERALD < DIAMOND < MASTER < GRANDMASTER < CHALLENGER and               *)
(* -(oldLP) - (100 - newLP) if it is lower, whatever the two divisions.    *)
(***************************************************************************)
C5_TierChange ==
    (/\ lpDone
     /\ IsTier(lpIn.oldTier)
     /\ IsTier(lpIn.newTier)
     /\ Fold(lpIn.oldTier) # Fold(lpIn.newTier)
     /\ ~BothApex)
    => lpOut = IF TierPos(lpIn.newTier) > TierPos(lpIn.oldTier)
               THEN Promotion ELSE Demotion

\* (DIAMOND, I, 90) -> (MASTER, 10) gives 20.
C5_Witness ==
    /\ lpDone
    /\ lpIn.oldTier = "DIAMOND" /\ lpIn.oldRank = "I" /\ lpIn.oldLP = 90
    /\ lpIn.newTier = "MASTER" /\ lpIn.newRank = "" /\ lpIn.newLP = 10
    /\ lpOut = 20

(***************************************************************************)
(* C6: when the tier is unchanged and not apex and the two divisions are   *)
(* different divisions of IV < III < II < I, CalculateLPChange returns     *)
(* (100 - oldLP) + newLP when the new division is higher and               *)
(* -(oldLP) - (100 - newLP) when it is lower.                              *)
(***************************************************************************)
C6_DivisionChange ==
    (/\ lpDone
     /\ Fold(lpIn.oldTier) = Fold(lpIn.newTier)
     /\ Fold(lpIn.oldTier) \notin ApexTiers
     /\ IsDivision(lpIn.oldRank)
     /\ IsDivision(lpIn.newRank)
     /\ Fold(lpIn.oldRank) # Fold(lpIn.newRank))
    => lpOut = IF DivisionPos(lpIn.newRank) > DivisionPos(lpIn.oldRank)
               THEN Promotion ELSE Demotion

\* (GOLD, IV, 80) -> (GOLD, III, 20) gives 40 (and the theorem covers
\* (GOLD, III, 10) -> (GOLD, IV, 95), which gives -15).
C6_Witness ==
    /\ lpDone
    /\ lpIn.oldTier = "GOLD" /\ lpIn.oldRank = "IV" /\ lpIn.oldLP = 80
    /\ lpIn.newTier = "GOLD" /\ lpIn.newRank = "III" /\ lpIn.newLP = 20
    /\ lpOut = 40

(***************************************************************************)
(* C7: whenever both tiers are in {MASTER, GRANDMASTER, CHALLENGER},       *)
(* CalculateLPChange returns newLP - oldLP, for every pair of division     *)
(* strings and every pair of point values.                                 *)
(***************************************************************************)
C7_ApexLinear ==
    (lpDone /\ BothApex) => lpOut = lpIn.newLP - lpIn.oldLP

\* (MASTER, 200) -> (MASTER, 150) gives -50, here with two division strings
\* that would read as a promotion in a divisioned tier.
C7_Witness ==
    /\ lpDone
    /\ lpIn.oldTier = "MASTER" /\ lpIn.oldRank = "IV" /\ lpIn.oldLP = 200
    /\ lpIn.newTier = "MASTER" /\ lpIn.newRank = "I" /\ lpIn.newLP = 150
    /\ lpOut = 0 - 50

(***************************************************************************)
(* C8: when the old and the new tier are equal up to case and the old and  *)
(* the new division are equal, CalculateLPChange returns newLP - oldLP.    *)
(***************************************************************************)
C8_SameDivisionLinear ==
    (/\ lpDone
     /\ Fold(lpIn.oldTier) = Fold(lpIn.newTier)
     /\ Fold(lpIn.oldRank) = Fold(lpIn.newRank))
    => lpOut = lpIn.newLP - lpIn.oldLP

\* ("gold", IV, 40) -> ("GOLD", IV, 55) gives 15.
C8_Witness ==
    /\ lpDone
    /\ lpIn.oldTier = "gold" /\ lpIn.oldRank = "IV" /\ lpIn.oldLP = 40
    /\ lpIn.newTier = "GOLD" /\ lpIn.newRank = "IV" /\ lpIn.newLP = 55
    /\ lpOut = 15

(***************************************************************************)
(* C9, as claimed: for two different tiers of the ladder and valid points, *)
(* the delta is positive when the new tier is higher and negative when it  *)
(* is lower.                                                               *)
(***************************************************************************)
C9_SignMatchesDirection ==
    (/\ lpDone
     /\ IsLadderTier(lpIn.oldTier)
     /\ IsLadderTier(lpIn.newTier)
     /\ lpIn.oldTier # lpIn.newTier
     /\ ValidPoints(lpIn.oldTier, lpIn.oldLP)
     /\ ValidPoints(lpIn.newTier, lpIn.newLP))
    => IF TierPos(lpIn.newTier) > TierPos(lpIn.oldTier)
       THEN lpOut > 0 ELSE lpOut < 0

(***************************************************************************)
(* C9, amended: for two different tiers of the ladder that are not both    *)
(* apex and valid points, the delta is never negative when the new tier is *)
(* higher, and zero only from 100 points to 0, and never positive when it  *)
(* is lower, and zero only from 0 points to 100; between two apex tiers    *)
(* the delta is newLP - oldLP whatever the direction of the move.          *)
(***************************************************************************)
C9_SignAmended ==
    (/\ lpDone
     /\ IsLadderTier(lpIn.oldTier)
     /\ IsLadderTier(lpIn.newTier)
     /\ lpIn.oldTier # lpIn.newTier
     /\ ValidPoints(lpIn.oldTier, lpIn.oldLP)
     /\ ValidPoints(lpIn.newTier, lpIn.newLP))
    => IF BothApex THEN lpOut = lpIn.newLP - lpIn.oldLP
       ELSE IF TierPos(lpIn.newTier) > TierPos(lpIn.oldTier)
       THEN /\ lpOut >= 0
            /\ lpOut = 0 <=> (lpIn.oldLP = 100 /\ lpIn.newLP = 0)
       ELSE /\ lpOut <= 0
            /\ lpOut = 0 <=> (lpIn.oldLP = 0 /\ lpIn.newLP = 100)

\* A promotion over a tier boundary from 100 points to 0: the delta is 0.
C9_Witness ==
    /\ lpDone
    /\ lpIn.oldTier = "PLATINUM" /\ lpIn.oldLP = 100
    /\ lpIn.newTier = "EMERALD" /\ lpIn.newLP = 0
    /\ lpOut = 0

(***************************************************************************)
(* C10, as claimed: when either tier string is not one of the ten tiers,   *)
(* CalculateLPChange returns newLP - oldLP.                                *)
(***************************************************************************)
C10_UnknownTierLinear ==
    (lpDone /\ (~IsTier(lpIn.oldTier) \/ ~IsTier(lpIn.newTier)))
    => lpOut = lpIn.newLP - lpIn.oldLP


(***************************************************************************)
(* SpecStore: the two storage entry points that record a match,            *)
(* AddMatchAndGetLPChange and AddPlacementMatch, called directly on the    *)
(* tables, any number of times with any of the sampled arguments, so that  *)
(* a call can repeat the one before it.  The calls are made for the first  *)
(* player; the rows of the second are the frame.                           *)
(***************************************************************************)
StoreCallers == {"p1"}

SecondMatch == [id |-> MatchIDs[2], endTs |-> 2, duration |-> 210, win |-> FALSE]

StoreMatches == {FirstMatch, SecondMatch}

NoCall ==
    [op |-> "init", p |-> "p1", match |-> NoMatch, rank |-> NoRank,
     fail |-> "none", err |-> FALSE, again |-> FALSE, pre |-> EmptyDB]

InitStore ==
    /\ lpIn = NoArgs
    /\ lpOut = 0
    /\ lpDone = FALSE
    /\ riotRank = <<>>
    /\ riotLatest = <<>>
    /\ sent = <<>>
    /\ events = 0
    /\ failures = 0
    /\ \E rank0 \in [Players -> RankSamples] :
          /\ \A p \in Players : rank0[p] \in RanksOf(p)
          /\ \A p \in Players \ StoreCallers : rank0[p] = UnrankedEntry
          /\ LET d == AddedDB(rank0, [p \in Players |-> NoMatch],
                              [p \in Players |-> NoTally])
             IN  /\ league = d.league
                 /\ matches = d.matches
                 /\ lp_history = d.lp_history
                 /\ placement = d.placement
    /\ last = NoCall
    /\ retry = NoRetry
    /\ request = NoRequest
    /\ track = NoTrack
    /\ gate = NoGate
    /\ summoners = DefaultSummoners
    /\ guild_summoner_associations = DefaultAssociations
    /\ adding = NoAdding
    /\ poll = NoPoll
    /\ clock = NoClock
    /\ placement_games = NoSeasons

\* One call of a storage entry point: r is what it returned.
StoreCall(op, p, m, rank, fail, r) ==
    /\ Len(lp_history[p]) < MaxHistory
    /\ fail # "none" => failures < MaxFailures
    /\ failures' = IF fail # "none" THEN failures + 1 ELSE failures
    /\ league' = r.db.league
    /\ matches' = r.db.matches
    /\ lp_history' = r.db.lp_history
    /\ placement' = r.db.placement
    /\ last' = [op |-> op, p |-> p, match |-> m, rank |-> rank, fail |-> fail,
                err |-> r.err, pre |-> DB,
                again |-> /\ last.op = op /\ last.p = p /\ last.match = m
                          /\ last.rank = rank /\ ~last.err]
    /\ UNCHANGED <<riotRank, riotLatest, sent, events, lpVars, retryVars, trackVars,
        cmdVars, seasonVars, poll>>

CallAddMatchAndGetLPChange(p, m, rank, fail) ==
    /\ league[p] # <<>>
    /\ StoreCall("AddMatchAndGetLPChange", p, m, rank, fail,
                 AddMatchAndGetLPChange(DB, p, m, rank.lp, rank.rank, rank.tier, fail))

CallAddPlacementMatch(p, m, fail) ==
    StoreCall("AddPlacementMatch", p, m, NoRank, fail, AddPlacementMatch(DB, p, m, fail))

NextStore ==
    \/ \E p \in StoreCallers, m \in StoreMatches, rank \in RankSamples,
          fail \in {"none", "insertMatch", "lpHistory", "updateLeague"} :
          CallAddMatchAndGetLPChange(p, m, rank, fail)
    \/ \E p \in StoreCallers, m \in StoreMatches,
          fail \in {"none", "insertMatch", "lpHistory"} :
          CallAddPlacementMatch(p, m, fail)

SpecStore == InitStore /\ [][NextStore]_vars

\* The sum of the lp_change column over a sequence of lp_history rows.
RECURSIVE SumLP(_)
SumLP(rows) ==
    IF rows = <<>> THEN 0 ELSE rows[1].lp_change + SumLP(Tail(rows))

\* The last step was a call that repeats the call before it, which succeeded.
RepeatedCall ==
    /\ last.op \in {"AddMatchAndGetLPChange", "AddPlacementMatch"}
    /\ last.again
    /\ last.fail = "none"

(***************************************************************************)
(* C11: a second call of AddMatchAndGetLPChange or AddPlacementMatch with  *)
(* the match and the rank of the successful call just before it returns no *)
(* error, leaves matches as it was with exactly one row of that match id   *)
(* for the player, leaves the stored league entry as it was, and leaves    *)
(* the sum of the player's recorded lp_change as it was.                   *)
(***************************************************************************)
C11_DuplicateMatch ==
    RepeatedCall =>
        /\ ~last.err
        /\ matches = last.pre.matches
        /\ Cardinality({r \in matches[last.p] : r.id = last.match.id}) = 1
        /\ league = last.pre.league
        /\ SumLP(lp_history[last.p]) = SumLP(last.pre.lp_history[last.p])

\* A repeated AddMatchAndGetLPChange whose first call recorded a delta other
\* than zero: the second call appended a row of its own, with delta 0.
C11_Witness ==
    /\ RepeatedCall
    /\ last.op = "AddMatchAndGetLPChange"
    /\ Len(lp_history[last.p]) = 2
    /\ lp_history[last.p][1].lp_change # 0
    /\ lp_history[last.p][1].match_id = last.match.id
    /\ lp_history[last.p][2].match_id = last.match.id
    /\ lp_history[last.p][2].lp_change = 0


(***************************************************************************)
(* What the claims read of a cycle that took the placement path: a new     *)
(* match was found and the stored rank was nil or UNRANKED.                *)
(***************************************************************************)
PlacementCycle == LastWasCycle /\ last.found /\ wasInPlacements(last.prev)

\* The player's placement counters before the last cycle (zero with no row).
PreTally == GetCurrentPlacementGames(last.pre, last.p)

\* The player's placement counters after the last cycle.
PostTally == GetCurrentPlacementGames(DB, last.p)

\* The match of the last cycle is at or above the remake threshold.
Counted == last.match.duration >= RemakeDuration

\* PreTally advanced by one game, a win or a loss as the match says.
OneMoreGame ==
    [total_games |-> PreTally.total_games + 1,
     wins |-> PreTally.wins + (IF last.match.win THEN 1 ELSE 0),
     losses |-> PreTally.losses + (IF last.match.win THEN 0 ELSE 1)]

MatchStored == \E m \in matches[last.p] : m.id = last.match.id

(***************************************************************************)
(* C12 as stated: a placement-path cycle, none of its calls failing for an *)
(* outside cause, advances the counters by exactly one game (a win or a    *)
(* loss as the match says) when the duration is at or above the remake     *)
(* threshold, leaves them unchanged when it is below, and stores the match *)
(* in both cases.                                                          *)
(***************************************************************************)
C12_PlacementCount ==
    (PlacementCycle /\ last.fail = "none") =>
        /\ Counted => placement[last.p] = <<OneMoreGame>>
        /\ ~Counted => placement[last.p] = last.pre.placement[last.p]
        /\ MatchStored

(***************************************************************************)
(* C12 below the cap, what the code does guarantee: the same, for a        *)
(* counted game only while the counter is below the cap of 5; a counted    *)
(* game found at the cap is rejected by the max_games constraint and the   *)
(* cycle ends with the counters unchanged and the match not stored.        *)
(***************************************************************************)
C12_PlacementCountBelowCap ==
    (PlacementCycle /\ last.fail = "none") =>
        /\ (Counted /\ PreTally.total_games < MaxPlacementGames) =>
              placement[last.p] = <<OneMoreGame>> /\ MatchStored
        /\ ~Counted =>
              placement[last.p] = last.pre.placement[last.p] /\ MatchStored
        /\ (Counted /\ PreTally.total_games >= MaxPlacementGames) =>
              /\ placement = last.pre.placement
              /\ matches = last.pre.matches
              /\ lp_history = last.pre.lp_history
              /\ sent = last.preSent

\* A counted loss found for a player in placements below the cap: one more
\* game and one more loss, and the match is stored.
C12_Witness ==
    /\ PlacementCycle
    /\ last.fail = "none"
    /\ Counted
    /\ ~last.match.win
    /\ PreTally.total_games < MaxPlacementGames
    /\ PostTally.total_games = PreTally.total_games + 1
    /\ PostTally.losses = PreTally.losses + 1
    /\ MatchStored

C14_NoDeltaWhileUnranked ==
    (/\ LastWasCycle
     /\ last.prev # <<>>
     /\ last.prev[1].tier = "UNRANKED") =>
        \A i \in DOMAIN RowsAdded : RowsAdded[i].lp_change = 0

(***************************************************************************)
(* C15: in every reachable state the total_games of every player's         *)
(* placement row is between 0 and 5, and wins and losses add up to it.     *)
(***************************************************************************)
C15_PlacementCap ==
    \A p \in Players :
        placement[p] # <<>> =>
            /\ placement[p][1].total_games >= 0
            /\ placement[p][1].total_games <= 5

\* A counted game found for a player stored as UNRANKED whose counter is
\* already 5: the counter stays at 5.
C15_Witness ==
    /\ PlacementCycle
    /\ last.fail = "none"
    /\ Counted
    /\ PreTally.total_games = 5
    /\ placement[last.p] # <<>>
    /\ placement[last.p][1].total_games = 5


(***************************************************************************)
(* C16: a cycle of a player stored as UNRANKED in which the fetched tier   *)
(* is not UNRANKED, no storage call of it returning an error, leaves the   *)
(* fetched rank as the stored league entry, whether or not it found a      *)
(* match; and every cycle of a player whose stored tier is not UNRANKED    *)
(* leaves the placement counters as they were and, when it finds a new     *)
(* match and its calls succeed, takes the ranked-match path: one           *)
(* lp_history row with the match id and the delta CalculateLPChange gives  *)
(* from the stored to the fetched rank, and a ranked-match embed.          *)
(***************************************************************************)
StoredUnranked == last.prev # <<>> /\ last.prev[1].tier = "UNRANKED"

StoredRanked == last.prev # <<>> /\ last.prev[1].tier # "UNRANKED"

\* The counted game the max_games constraint rejects.
RejectedAtCap ==
    last.found /\ Counted /\ PreTally.total_games >= MaxPlacementGames

DefaultRetryConfig == [MaxRetries |-> 5, BaseDelay |-> 1, MaxDelay |-> 30]

RetryConfigs ==
    {DefaultRetryConfig,
     [MaxRetries |-> 1, BaseDelay |-> 1, MaxDelay |-> 30],
     [MaxRetries |-> 4, BaseDelay |-> 10, MaxDelay |-> 30],
     [MaxRetries |-> 7, BaseDelay |-> 1, MaxDelay |-> 30]}

\* What one invocation of the operation returns.
Outcomes == {"nil", "retryable", "nonretryable"}

\* 1 << n
RECURSIVE ShiftLeftOne(_)
ShiftLeftOne(n) == IF n = 0 THEN 1 ELSE 2 * ShiftLeftOne(n - 1)

minDuration(a, b) == IF a < b THEN a ELSE b

calculateBackoffNoCeiling(attempt, baseDelay, maxDelay) ==
    baseDelay * ShiftLeftOne(attempt)

calculateBackoff(attempt, baseDelay, maxDelay) ==
    minDuration(baseDelay * ShiftLeftOne(attempt), maxDelay)

InitRetry ==
    /\ lpIn = NoArgs
    /\ lpOut = 0
    /\ lpDone = FALSE
    /\ riotRank = <<>>
    /\ riotLatest = <<>>
    /\ league = <<>>
    /\ matches = <<>>
    /\ lp_history = <<>>
    /\ placement = <<>>
    /\ sent = <<>>
    /\ events = 0
    /\ failures = 0
    /\ last = <<>>
    /\ request = NoRequest
    /\ track = NoTrack
    /\ gate = NoGate
    /\ summoners = DefaultSummoners
    /\ guild_summoner_associations = DefaultAssociations
    /\ adding = NoAdding
    /\ poll = NoPoll
    /\ clock = NoClock
    /\ placement_games = NoSeasons
    /\ \E config \in RetryConfigs :
          retry = [pc |-> "loop", config |-> config, attempt |-> 0,
                   calls |-> <<>>, slept |-> <<>>,
                   returned |-> [kind |-> "none", wraps |-> "nil"]]

\* One iteration of the loop of RetryWithBackoff on the call state r: the
\* operation is invoked and returns outcome; the function returns nil, or
\* leaves the loop after the last attempt and returns the error wrapped, or
\* sleeps and goes on.
retryLoop(r, outcome) ==
    IF outcome = "nil"
    THEN [r EXCEPT !.calls = Append(@, outcome), !.pc = "done",
                   !.returned = [kind |-> "nil", wraps |-> "nil"]]
    ELSE IF r.attempt = r.config.MaxRetries - 1
    THEN [r EXCEPT !.calls = Append(@, outcome), !.pc = "done",
                   !.returned = [kind |-> "error", wraps |-> outcome]]
    ELSE [r EXCEPT !.calls = Append(@, outcome),
                   !.slept = Append(@, calculateBackoff(r.attempt,
                                           r.config.BaseDelay,
                                           r.config.MaxDelay)),
                   !.attempt = @ + 1]

RetryWithBackoff(outcome) ==
    /\ retry.pc = "loop"
    /\ retry.attempt < retry.config.MaxRetries
    /\ retry' = retryLoop(retry, outcome)
    /\ UNCHANGED <<lpVars, engineVars, request, trackVars, cmdVars, seasonVars, poll>>

NextRetry == \E outcome \in Outcomes : RetryWithBackoff(outcome)

SpecRetry == InitRetry /\ [][NextRetry]_vars

RetryDone == retry.pc = "done"

(***************************************************************************)
(* C17 as stated: an invocation that returns a NonRetryableError is the    *)
(* last one: RetryWithBackoff has returned the failure, without sleeping   *)
(* after it and without invoking the operation again.                      *)
(***************************************************************************)
C17_NonRetryableAborts ==
    \A i \in DOMAIN retry.calls :
        retry.calls[i] = "nonretryable" =>
            /\ i = Len(retry.calls)
            /\ RetryDone
            /\ retry.returned = [kind |-> "error", wraps |-> "nonretryable"]
            /\ Len(retry.slept) = i - 1

(***************************************************************************)
(* C18: RetryWithBackoff invokes the operation at least once and at most   *)
(* MaxRetries times; every invocation but the last failed; it returns nil  *)
(* exactly when the last invocation succeeded and otherwise, after         *)
(* MaxRetries invocations, an error wrapping the last failure; the delay   *)
(* slept after failed attempt k (from 0) is min(BaseDelay * 2^k, MaxDelay) *)
(* and nothing is slept after the final attempt.                           *)
(***************************************************************************)
ExpectedDelays(n, config) ==
    [k \in 1..n |->
        IF config.BaseDelay * 2^(k - 1) < config.MaxDelay
        THEN config.BaseDelay * 2^(k - 1) ELSE config.MaxDelay]

C18_BoundedBackoff ==
    LET n == Len(retry.calls)
    IN  /\ n <= retry.config.MaxRetries
        /\ \A i \in 1..(n - 1) : retry.calls[i] # "nil"
        /\ RetryDone =>
              /\ n >= 1
              /\ retry.calls[n] = "nil" =>
                    retry.returned = [kind |-> "nil", wraps |-> "nil"]
              /\ retry.calls[n] # "nil" =>
                    /\ n = retry.config.MaxRetries
                    /\ retry.returned = [kind |-> "error", wraps |-> retry.calls[n]]
              /\ retry.slept = ExpectedDelays(n - 1, retry.config)
        /\ ~RetryDone =>
              /\ n < retry.config.MaxRetries
              /\ n >= 1 => retry.calls[n] # "nil"
              /\ retry.returned.kind = "none"
              /\ retry.slept = ExpectedDelays(n, retry.config)

\* All the attempts failed, and the delay reached its ceiling on the way:
\* 10, 20, then 30 and not 40, and nothing after the fourth attempt.
C18_Witness ==
    /\ RetryDone
    /\ retry.returned.kind = "error"
    /\ Len(retry.calls) = retry.config.MaxRetries
    /\ retry.config.MaxRetries = 4
    /\ retry.slept = <<10, 20, 30>>


(***************************************************************************)
(* SpecRequest: riotapi.Client.makeRequest, called for GetSummonerRank by  *)
(* the per-player step that TrackMatches runs under RetryWithBackoff with  *)
(* DefaultRetryConfig.  One step of makeRequest is one HTTP exchange; a    *)
(* 429 answer that the function handles sends it into itself again.  The   *)
(* recursion has no counter in the code; depth counts it here and stays at *)
(* MaxDepth once there, so that the state space is finite.                 *)
(***************************************************************************)
MaxDepth == 3

StatusOK == 200
StatusTooManyRequests == 429

\* Values of the Retry-After header: absent, two numbers of seconds, and
\* a value that is not a number.
RetryAfterValues == {"", "2", "7", "soon"}

\* strconv.Atoi on the header values above.
Atoi(str) ==
    CASE str = "2" -> [err |-> FALSE, n |-> 2]
      [] str = "7" -> [err |-> FALSE, n |-> 7]
      [] OTHER -> [err |-> TRUE, n |-> 0]

NoResponse == [kind |-> "none"]

\* What httpClient.Do gives: a transport error, or a response with its
\* status code, its Retry-After header and whether its body is JSON.
Responses ==
    {[kind |-> "transport"]}
    \cup {[kind |-> "http", status |-> StatusOK, retryAfter |-> "", json |-> TRUE]}
    \cup [kind : {"http"}, status : {StatusTooManyRequests, 404},
          retryAfter : RetryAfterValues, json : BOOLEAN]

\* A fresh call of makeRequest; before is the delay that preceded it and
\* prev the answer that ended the attempt before it.
NewRequest(prev, before) ==
    [pc |-> "send", depth |-> 0, prev |-> prev, before |-> before,
     resp |-> NoResponse, result |-> "none"]

NoDelay == [by |-> "none", secs |-> 0]

InitRequest ==
    /\ lpIn = NoArgs
    /\ lpOut = 0
    /\ lpDone = FALSE
    /\ riotRank = <<>>
    /\ riotLatest = <<>>
    /\ league = <<>>
    /\ matches = <<>>
    /\ lp_history = <<>>
    /\ placement = <<>>
    /\ sent = <<>>
    /\ events = 0
    /\ failures = 0
    /\ last = <<>>
    /\ retry = [pc |-> "loop", config |-> DefaultRetryConfig, attempt |-> 0,
                 calls |-> <<>>, slept |-> <<>>,
                 returned |-> [kind |-> "none", wraps |-> "nil"]]
    /\ request = NewRequest(NoResponse, NoDelay)
    /\ track = NoTrack
    /\ gate = NoGate
    /\ summoners = DefaultSummoners
    /\ guild_summoner_associations = DefaultAssociations
    /\ adding = NoAdding
    /\ poll = NoPoll
    /\ clock = NoClock
    /\ placement_games = NoSeasons

\* The seconds makeRequest sleeps on a 429 before it calls itself.
retryAfterSleep(retryAfter) ==
    IF retryAfter # ""
    THEN IF Atoi(retryAfter).err
         THEN [by |-> "default", secs |-> 1]
         ELSE [by |-> "Retry-After", secs |-> Atoi(retryAfter).n]
    ELSE [by |-> "default", secs |-> 1]

makeRequest(resp) ==
    /\ request.pc = "send"
    /\ request' =
          IF resp.kind = "transport"
          THEN [request EXCEPT !.pc = "returned", !.resp = resp, !.result = "error"]
          ELSE IF resp.status = StatusOK
          THEN [request EXCEPT !.pc = "returned", !.resp = resp, !.result = "ok"]
          ELSE IF ~resp.json
          THEN [request EXCEPT !.pc = "returned", !.resp = resp, !.result = "error"]
          ELSE IF resp.status = StatusTooManyRequests
          THEN [request EXCEPT
                  !.depth = IF @ < MaxDepth THEN @ + 1 ELSE MaxDepth,
                  !.prev = resp,
                  !.before = retryAfterSleep(resp.retryAfter)]
          ELSE [request EXCEPT !.pc = "returned", !.resp = resp, !.result = "error"]
    /\ UNCHANGED <<lpVars, engineVars, retry, trackVars, cmdVars, seasonVars, poll>>

\* The per-player step ends once its upstream call has returned: with the
\* error of the call (checkSummonerUpdates returns it as it is), or, after
\* an answer, with whatever the rest of the step gives.  RetryWithBackoff
\* takes it from there, and a further attempt makes the call afresh.
RetryRequest(outcome) ==
    /\ request.pc = "returned"
    /\ retry.pc = "loop"
    /\ retry.attempt < retry.config.MaxRetries
    /\ request.result = "error" => outcome = "retryable"
    /\ retry' = retryLoop(retry, outcome)
    /\ request' =
          IF retry'.pc = "loop"
          THEN NewRequest(request.resp,
                          [by |-> "backoff",
                           secs |-> retry'.slept[Len(retry'.slept)]])
          ELSE request
    /\ UNCHANGED <<lpVars, engineVars, trackVars, cmdVars, seasonVars, poll>>

NextRequest ==
    \/ \E resp \in Responses : makeRequest(resp)
    \/ \E outcome \in Outcomes : RetryRequest(outcome)

SpecRequest == InitRequest /\ [][NextRequest]_vars

\* The request path is always scheduled: a pending exchange gets its answer
\* and a returned call is taken up by the retry loop.
SpecRequestFair == SpecRequest /\ WF_vars(NextRequest)

\* The attempt that came before the pending one ended on a 429 whose
\* Retry-After header is a number of seconds.
AfterHinted429 ==
    /\ request.pc # "idle"
    /\ request.prev.kind = "http"
    /\ request.prev.status = StatusTooManyRequests
    /\ ~Atoi(request.prev.retryAfter).err

(***************************************************************************)
(* C19 as stated: after a 429 answer that carries Retry-After: N, the      *)
(* delay before the next attempt of the call is the N seconds of the hint, *)
(* not the computed backoff.                                               *)
(***************************************************************************)
C19_RetryAfterHonored ==
    AfterHinted429 =>
        request.before = [by |-> "Retry-After",
                          secs |-> Atoi(request.prev.retryAfter).n]

(***************************************************************************)
(* C20 as stated: every upstream call terminates: a call that is sending   *)
(* eventually returns to its caller, whatever upstream answers.            *)
(***************************************************************************)
C20_RequestTerminates == (request.pc = "send") ~> (request.pc = "returned")


(***************************************************************************)
(* SpecLimiter: the one Client that bot.New makes, its one RateLimiter,    *)
(* and the goroutines that call the client: the tracker and a command      *)
(* handler.  The limiter is a bucket of tokens: NewRateLimiter(20, 100)    *)
(* starts it full with 100, a token comes back every 1/20 s, and Wait      *)
(* (with context.Background(), for one token) returns once it has taken    *)
(* one.  The bucket is scaled down to MaxBurst tokens here.                *)
(***************************************************************************)
MaxBurst == 2       \* tokens the bucket holds (100 in NewClient)
MaxRefills == 3     \* tokens that come back over a behaviour
MaxRequests == 3    \* HTTP requests one caller sends over a behaviour

Callers == {"tracker", "command"}

NoCaller == [pc |-> "idle", acquired |-> 0, sentCount |-> 0, reissued |-> 0]

InitLimiter ==
    /\ lpIn = NoArgs
    /\ lpOut = 0
    /\ lpDone = FALSE
    /\ riotRank = <<>>
    /\ riotLatest = <<>>
    /\ league = <<>>
    /\ matches = <<>>
    /\ lp_history = <<>>
    /\ placement = <<>>
    /\ sent = <<>>
    /\ events = 0
    /\ failures = 0
    /\ last = <<>>
    /\ retry = NoRetry
    /\ request = NoRequest
    /\ track = NoTrack
    /\ gate = [pc |-> "made", tokens |-> MaxBurst, refills |-> 0,
               callers |-> [c \in Callers |-> NoCaller]]
    /\ summoners = DefaultSummoners
    /\ guild_summoner_associations = DefaultAssociations
    /\ adding = NoAdding
    /\ poll = NoPoll
    /\ clock = NoClock
    /\ placement_games = NoSeasons

\* A method of the client calls makeRequest: the caller is at its first
\* statement, c.rateLimiter.Wait().
callMakeRequest(c) ==
    /\ gate.callers[c].pc = "idle"
    /\ gate.callers[c].sentCount < MaxRequests
    /\ gate' = [gate EXCEPT !.callers[c].pc = "wait"]
    /\ UNCHANGED <<lpVars, engineVars, retryVars, track, cmdVars, seasonVars, poll>>

\* RateLimiter.Wait returns: a token was there and the caller took it.
Wait(c) ==
    /\ gate.callers[c].pc = "wait"
    /\ gate.tokens > 0
    /\ gate' = [gate EXCEPT !.tokens = @ - 1,
                            !.callers[c].pc = "send",
                            !.callers[c].acquired = @ + 1]
    /\ UNCHANGED <<lpVars, engineVars, retryVars, track, cmdVars, seasonVars, poll>>

\* Where the caller is after the branch of makeRequest that handles a 429:
\* it has slept and called makeRequest again, whose first statement is Wait.
reissueSkipsWait(c) == "send"

reissue(c) == "wait"

\* The rest of makeRequest after Wait: the request goes out and the answer
\* is handled; every answer but a 429 with a JSON body ends the call.
sendRequest(c, resp) ==
    /\ gate.callers[c].pc = "send"
    /\ gate.callers[c].sentCount < MaxRequests
    /\ gate' =
          IF /\ resp.kind = "http"
             /\ resp.status = StatusTooManyRequests
             /\ resp.json
          THEN [gate EXCEPT !.callers[c].sentCount = @ + 1,
                            !.callers[c].reissued = @ + 1,
                            !.callers[c].pc = reissue(c)]
          ELSE [gate EXCEPT !.callers[c].sentCount = @ + 1,
                            !.callers[c].pc = "idle"]
    /\ UNCHANGED <<lpVars, engineVars, retryVars, track, cmdVars, seasonVars, poll>>

\* A twentieth of a second passes: a token comes back, up to the burst.
Refill ==
    /\ gate.tokens < MaxBurst
    /\ gate.refills < MaxRefills
    /\ gate' = [gate EXCEPT !.tokens = @ + 1, !.refills = @ + 1]
    /\ UNCHANGED <<lpVars, engineVars, retryVars, track, cmdVars, seasonVars, poll>>

NextLimiter ==
    \/ \E c \in Callers : callMakeRequest(c)
    \/ \E c \in Callers : Wait(c)
    \/ \E c \in Callers, resp \in Responses : sendRequest(c, resp)
    \/ Refill

SpecLimiter == InitLimiter /\ [][NextLimiter]_vars

RECURSIVE SumOver(_, _)
SumOver(f, S) ==
    IF S = {} THEN 0
    ELSE LET c == CHOOSE x \in S : TRUE IN f[c] + SumOver(f, S \ {c})

(***************************************************************************)
(* C21: every HTTP request sent upstream, a re-issue after a 429 included, *)
(* comes after an acquisition of its own from the one limiter of the       *)
(* client: a caller has sent as many requests as it has taken tokens, less *)
(* the one it holds when it is about to send, and all the tokens taken     *)
(* come out of the one bucket (the burst and what came back since).        *)
(***************************************************************************)
C21_AcquireBeforeSend ==
    /\ \A c \in Callers :
          gate.callers[c].acquired =
              gate.callers[c].sentCount
                + (IF gate.callers[c].pc = "send" THEN 1 ELSE 0)
    /\ gate.tokens >= 0
    /\ SumOver([c \in Callers |-> gate.callers[c].acquired], Callers)
          = MaxBurst + gate.refills - gate.tokens

\* The tracker has sent three requests, two of them re-issues after a 429,
\* and the command handler one, out of a bucket of two that refilled.
C21_Witness ==
    /\ gate.callers["tracker"].sentCount = 3
    /\ gate.callers["tracker"].reissued = 2
    /\ gate.callers["tracker"].acquired = 3
    /\ gate.callers["command"].sentCount = 1


(***************************************************************************)
(* SpecTrack: the goroutine that runs TrackMatches, and Bot.Shutdown in    *)
(* the goroutine of Run.  TrackMatches waits in its select; on a tick it   *)
(* loads the players and, for each in turn, calls RetryWithBackoff around  *)
(* checkSummonerUpdates and waits for it to return.  A reconciliation in   *)
(* flight is a pair <<player, cycle>>; it can be blocked (in               *)
(* RateLimiter.Wait or in a backoff sleep) before it ends.  What upstream  *)
(* reports for the first player can move between polls.  A player whose   *)
(* /add ran while GetSummonerRank failed has no league entry (AddSummoner  *)
(* skips the insert for a nil entry) and no match stored.                  *)
(***************************************************************************)
MaxCycles == 2      \* poll cycles TrackMatches starts over a behaviour

Gold4 == [tier |-> "GOLD", rank |-> "IV", lp |-> 80]

Gold3 == [tier |-> "GOLD", rank |-> "III", lp |-> 20]

\* The tables when the tracker starts: the players in noEntry have no row
\* in league_entries and no match; the others are stored as GOLD IV with
\* their first match.
TrackDB(noEntry) ==
    LET d == AddedDB([p \in Players |-> Gold4],
                     [p \in Players |-> IF p \in noEntry THEN NoMatch ELSE FirstMatch],
                     [p \in Players |-> NoTally])
    IN  [d EXCEPT !.league = [p \in Players |->
                                 IF p \in noEntry THEN <<>> ELSE d.league[p]]]

\* What GetAllSummonersWithGuilds can give: an error, no player, or the
\* players of the result in either order (the query has no ORDER BY).
Loads == {"error", "empty", "p1", "p2", "p1p2", "p2p1"}

LoadedSummoners(load) ==
    CASE load = "p1p2" -> <<"p1", "p2">>
      [] load = "p2p1" -> <<"p2", "p1">>
      [] load = "p1" -> <<"p1">>
      [] load = "p2" -> <<"p2">>
      [] OTHER -> <<>>

\* selectSummonerInGuildSQL: summoners JOIN guild_summoner_associations,
\* GROUP BY s.id: one row for each player that has a row in summoners and
\* at least one association.
GetAllSummonersWithGuildsLeftJoin(sums, assoc) == sums

GetAllSummonersWithGuilds(sums, assoc) ==
    {p \in sums : \E g \in Guilds : <<g, p>> \in assoc}

\* How RetryWithBackoff around checkSummonerUpdates ends.
UnitOutcomes == {"nil", "nonretryable", "exhausted"}

\* go b.TrackMatches(): the goroutine is in its select, nothing loaded yet.
NewTracker ==
    [pc |-> "select", cancelled |-> FALSE, tick |-> FALSE,
     summoners |-> <<>>, guildIDs |-> [p \in Players |-> <<>>],
     seen |-> {}, idx |-> 1, cycle |-> 0,
     inflight |-> {}, blocked |-> {},
     outcome |-> [p \in Players |-> "none"],
     log |-> [p \in Players |-> <<>>],
     rowCycle |-> [p \in Players |-> <<>>],
     wg |-> 0, shutdown |-> "no",
     sessionClosed |-> FALSE, storageClosed |-> FALSE,
     lateStart |-> FALSE]

InitTrack ==
    /\ lpIn = NoArgs
    /\ lpOut = 0
    /\ lpDone = FALSE
    /\ riotRank \in [Players -> {Gold4, Gold3}]
    /\ riotRank["p2"] = Gold4
    /\ riotLatest \in [Players -> {NoMatch, FirstMatch, SecondMatch}]
    /\ riotLatest["p2"] = FirstMatch
    /\ \E noEntry \in SUBSET Players :
          /\ \A p \in Players : riotLatest[p] = NoMatch => p \in noEntry
          /\ LET d == TrackDB(noEntry)
             IN  /\ league = d.league
                 /\ matches = d.matches
                 /\ lp_history = d.lp_history
                 /\ placement = d.placement
    /\ sent = [g \in Guilds |-> <<>>]
    /\ events = 0
    /\ failures = 0
    /\ last = NoCycle("init", "p1")
    /\ retry = NoRetry
    /\ request = NoRequest
    /\ gate = NoGate
    /\ summoners = DefaultSummoners
    /\ guild_summoner_associations = DefaultAssociations
    /\ adding = NoAdding
    /\ poll = NoPoll
    /\ clock = NoClock
    /\ placement_games = NoSeasons
    /\ track = NewTracker

\* The process is alive: no panic, and main has not returned.
Alive(t) == t.pc # "panicked" /\ t.shutdown # "exited"

\* The ticker fires; its channel holds one tick.
Tick ==
    /\ Alive(track)
    /\ ~track.tick
    /\ track' = [track EXCEPT !.tick = TRUE]
    /\ UNCHANGED <<lpVars, engineVars, retryVars, gate, cmdVars, seasonVars, poll>>

\* select, case <-b.ctx.Done(): TrackMatches returns.
selectDone ==
    /\ Alive(track)
    /\ track.pc = "select"
    /\ track.cancelled
    /\ track' = [track EXCEPT !.pc = "stopped"]
    /\ UNCHANGED <<lpVars, engineVars, retryVars, gate, cmdVars, seasonVars, poll>>

\* select, case <-ticker.C: the players are loaded; an error or an empty
\* list goes back to the select, otherwise the cycle starts.  When the
\* context is cancelled as well, select takes either case.
selectTick(load) ==
    /\ Alive(track)
    /\ track.pc = "select"
    /\ track.tick
    /\ track.cycle < MaxCycles
    /\ track.storageClosed => load = "error"
    /\ load # "error" =>
          {LoadedSummoners(load)[i] : i \in DOMAIN LoadedSummoners(load)} =
              GetAllSummonersWithGuilds(summoners, guild_summoner_associations)
    /\ track' =
          IF load = "error"
          THEN [track EXCEPT !.tick = FALSE]
          ELSE IF LoadedSummoners(load) = <<>>
          THEN [track EXCEPT !.tick = FALSE, !.summoners = <<>>,
                             !.seen = guild_summoner_associations]
          ELSE [track EXCEPT !.tick = FALSE, !.pc = "cycle",
                             !.summoners = LoadedSummoners(load),
                             !.guildIDs = [p \in Players |->
                                 guildIDsOf(guild_summoner_associations, p)],
                             !.seen = guild_summoner_associations,
                             !.idx = 1, !.cycle = @ + 1,
                             !.outcome = [p \in Players |-> "none"],
                             !.lateStart = @ \/ track.cancelled]
    /\ UNCHANGED <<lpVars, engineVars, retryVars, gate, cmdVars, seasonVars, poll>>

\* The for loop calls RetryWithBackoff and has it return before it goes
\* on: the next player is taken up when no reconciliation is in flight.
canDispatchGo(t) == TRUE

canDispatch(t) == t.inflight = {}

\* The loop takes up the next player: checkSummonerUpdates starts.
Dispatch ==
    /\ Alive(track)
    /\ track.pc = "cycle"
    /\ track.idx <= Len(track.summoners)
    /\ canDispatch(track)
    /\ LET p == track.summoners[track.idx]
       IN  track' = [track EXCEPT
                       !.inflight = @ \cup {<<p, track.cycle>>},
                       !.idx = @ + 1,
                       !.log[p] = Append(@, [cycle |-> track.cycle, ev |-> "read"])]
    /\ UNCHANGED <<lpVars, engineVars, retryVars, gate, cmdVars, seasonVars, poll>>

\* The reconciliation waits: in RateLimiter.Wait, or in the sleep of
\* RetryWithBackoff or of makeRequest.
Block(unit) ==
    /\ Alive(track)
    /\ unit \in track.inflight \ track.blocked
    /\ track' = [track EXCEPT !.blocked = @ \cup {unit}]
    /\ UNCHANGED <<lpVars, engineVars, retryVars, gate, cmdVars, seasonVars, poll>>

Unblock(unit) ==
    /\ Alive(track)
    /\ unit \in track.blocked
    /\ track' = [track EXCEPT !.blocked = @ \ {unit}]
    /\ UNCHANGED <<lpVars, engineVars, retryVars, gate, cmdVars, seasonVars, poll>>

\* The index of the loop after a player whose RetryWithBackoff returned an
\* error: the error is logged and the loop goes on where it was.
onFailureAbort(t) == Len(t.summoners) + 1

onFailure(t) == t.idx

\* RetryWithBackoff around checkSummonerUpdates returns for the player of
\* unit.  With nil the reads succeeded and the player was reconciled: a nil
\* previous rank and no new match is the call of processRankChange on nil,
\* which panics; otherwise the tables are written (no write goes through
\* once the storage is closed) and the embeds sent.  With an error nothing
\* was written and TrackMatches logs it.
finishUnit(unit, outcome) ==
    LET p == unit[1]
        prevRow == GetPreviousRank(DB, p)
        cur == riotRank[p]
        m == riotLatest[p]
        found == GetNewMatchForSummoner(m, GetLastMatchID(DB, p))
        panics == outcome = "nil" /\ ~found /\ hasRankChanged(prevRow, cur)
                    /\ prevRow = <<>>
        r == IF outcome # "nil" \/ panics \/ track.storageClosed
             THEN [db |-> DB, embeds |-> <<>>]
             ELSE reconcile(DB, p, found, m, prevRow, cur, "none")
        rows == Len(r.db.lp_history[p]) - Len(lp_history[p])
    IN  /\ Alive(track)
        /\ unit \in track.inflight \ track.blocked
        /\ track.storageClosed => outcome # "nil"
        /\ league' = r.db.league
        /\ matches' = r.db.matches
        /\ lp_history' = r.db.lp_history
        /\ placement' = r.db.placement
        /\ sent' = IF track.sessionClosed THEN sent
                   ELSE announceGuilds(sent, track.guildIDs[p], r.embeds, {})
        /\ track' =
              IF panics
              THEN [track EXCEPT !.pc = "panicked"]
              ELSE [track EXCEPT
                      !.inflight = @ \ {unit},
                      !.outcome[p] = IF outcome = "nil" THEN "ok" ELSE "failed",
                      !.idx = IF outcome = "nil" THEN @ ELSE onFailure(track),
                      !.log[p] = Append(@, [cycle |-> unit[2], ev |-> "done"]),
                      !.rowCycle[p] = @ \o [i \in 1..rows |-> unit[2]]]
        /\ UNCHANGED <<riotRank, riotLatest, events, failures, last,
                       lpVars, retryVars, gate, cmdVars, seasonVars, poll>>

\* The for loop is over: back to the select.
endCycle ==
    /\ Alive(track)
    /\ track.pc = "cycle"
    /\ track.idx > Len(track.summoners)
    /\ canDispatch(track)
    /\ track' = [track EXCEPT !.pc = "select"]
    /\ UNCHANGED <<lpVars, engineVars, retryVars, gate, cmdVars, seasonVars, poll>>

\* Bot.Shutdown, line by line: b.cancel(); b.wg.Wait(), which returns when
\* the counter is zero (nothing ever adds to it); session.Close and, when
\* that gave no error, storage.Close; then Run returns and main with it.
ShutdownCancel ==
    /\ Alive(track)
    /\ track.shutdown = "no"
    /\ track' = [track EXCEPT !.shutdown = "cancelled", !.cancelled = TRUE]
    /\ UNCHANGED <<lpVars, engineVars, retryVars, gate, cmdVars, seasonVars, poll>>

ShutdownWait ==
    /\ Alive(track)
    /\ track.shutdown = "cancelled"
    /\ track.wg = 0
    /\ track' = [track EXCEPT !.shutdown = "waited"]
    /\ UNCHANGED <<lpVars, engineVars, retryVars, gate, cmdVars, seasonVars, poll>>

ShutdownClose(sessionErr) ==
    /\ Alive(track)
    /\ track.shutdown = "waited"
    /\ track' = [track EXCEPT !.shutdown = "closed",
                              !.sessionClosed = TRUE,
                              !.storageClosed = ~sessionErr]
    /\ UNCHANGED <<lpVars, engineVars, retryVars, gate, cmdVars, seasonVars, poll>>

Exit ==
    /\ Alive(track)
    /\ track.shutdown = "closed"
    /\ track' = [track EXCEPT !.shutdown = "exited"]
    /\ UNCHANGED <<lpVars, engineVars, retryVars, gate, cmdVars, seasonVars, poll>>

NextTrack ==
    \/ Tick
    \/ selectDone
    \/ \E load \in Loads : selectTick(load)
    \/ Dispatch
    \/ \E unit \in Players \X (1..MaxCycles) : Block(unit)
    \/ \E unit \in Players \X (1..MaxCycles) : Unblock(unit)
    \/ \E unit \in Players \X (1..MaxCycles), outcome \in UnitOutcomes :
          finishUnit(unit, outcome)
    \/ endCycle
    \/ ShutdownCancel
    \/ ShutdownWait
    \/ \E sessionErr \in BOOLEAN : ShutdownClose(sessionErr)
    \/ Exit
    \/ \E r \in {Gold4, Gold3} : RankMove("p1", r)

SpecTrack == InitTrack /\ [][NextTrack]_vars


(***************************************************************************)
(* C22 as stated: a reconciliation blocked in Wait or in a backoff sleep   *)
(* delays only itself: while it is blocked and players of the cycle are    *)
(* still to be taken up, the loop can take up the next one.                *)
(***************************************************************************)
C22_BlockedDelaysOnlyItself ==
    (/\ Alive(track)
     /\ track.blocked # {}
     /\ track.pc = "cycle"
     /\ track.idx <= Len(track.summoners)) => ENABLED Dispatch

(***************************************************************************)
(* C23: when the loop over the players of a cycle is over, every player    *)
(* loaded for the cycle had its reconciliation run to its end, whether it  *)
(* returned nil or an error: a player whose reconciliation failed does not *)
(* keep the others from theirs.                                            *)
(***************************************************************************)
C23_FailureIsolated ==
    (track.pc \in {"select", "stopped"} /\ track.cycle > 0) =>
        \A i \in DOMAIN track.summoners :
            track.outcome[track.summoners[i]] # "none"

\* The first player of the cycle failed and the second was reconciled.
C23_Witness ==
    /\ track.pc = "select"
    /\ track.cycle = 1
    /\ track.shutdown = "no"
    /\ track.summoners = <<"p1", "p2">>
    /\ track.outcome["p1"] = "failed"
    /\ track.outcome["p2"] = "ok"

(***************************************************************************)
(* C24 as stated: after the shutdown signal no new poll cycle starts, and  *)
(* the Discord session and the storage are not closed, nor does the        *)
(* process exit, while a reconciliation is in flight.                      *)
(***************************************************************************)
C24_GracefulShutdown ==
    /\ ~track.lateStart
    /\ (track.sessionClosed \/ track.storageClosed \/ track.shutdown = "exited")
          => track.inflight = {}

C30_OnlyShutdownStops ==
    /\ track.pc # "panicked"
    /\ track.pc = "stopped" => track.cancelled


(***************************************************************************)
(* C26 as stated: no match row is persisted without its paired lp_history  *)
(* row, and a cycle that inserted a match on the ranked path also appended *)
(* the row and brought the league entry to the fetched rank.               *)
(***************************************************************************)
C26_MatchPairedWithSnapshot ==
    /\ \A p \in Players : \A m \in matches[p] :
          \E i \in DOMAIN lp_history[p] : lp_history[p][i].match_id = m.id
    /\ (LastWasCycle /\ MatchesAdded # {} /\ ~wasInPlacements(last.prev)) =>
          league[last.p] = <<last.cur>>

\* The storage calls of a cycle that write.
WriteFailPoints == {"increment", "insertMatch", "lpHistory", "updateLeague"}

(***************************************************************************)
(* C27 as stated: a cycle in which a storage write failed returned no      *)
(* error to the retry loop (nothing is retried within the cycle) and left  *)
(* the player's rows in the four tables as they were before the cycle.     *)
(***************************************************************************)
C27_WriteFailureLeavesState ==
    (LastWasCycle /\ last.fail \in WriteFailPoints) =>
        /\ last.err = "none"
        /\ league = last.pre.league
        /\ matches = last.pre.matches
        /\ lp_history = last.pre.lp_history
        /\ placement = last.pre.placement

C29_DeliveryFailureIsolated ==
    (LastWasCycle /\ last.down # {}) =>
        LET r == reconcile(last.pre, last.p, last.found, last.match, last.prev,
                           last.cur, last.fail)
        IN  /\ r.embeds # <<>>
            /\ \A g \in Guilds :
                  sent[g] = IF g \in Reached
                            THEN Append(last.preSent[g], r.embeds[1])
                            ELSE last.preSent[g]
            /\ league = r.db.league
            /\ matches = r.db.matches
            /\ lp_history = r.db.lp_history
            /\ placement = r.db.placement

\* The delivery to the first guild of the player failed; the second guild
\* received the event and the cycle's rows are in the tables.
C29_Witness ==
    /\ LastWasCycle
    /\ last.p = "p1"
    /\ last.down = {"g1"}
    /\ Len(sent["g2"]) = Len(last.preSent["g2"]) + 1
    /\ sent["g1"] = last.preSent["g1"]
    /\ MatchesAdded # {}
    /\ RowsAdded # <<>>


(***************************************************************************)
(* SpecCommands: the TrackMatches loop next to the commands that change    *)
(* what it loads.  /add associates the player with the guild; for a player *)
(* that has no row yet it stores the row and the league entry upstream     *)
(* reports and starts addLastMatchData in a goroutine of its own.  /remove *)
(* and /reset delete associations and nothing else.  Upstream does not     *)
(* move here and every reconciliation returns nil: the first player has a  *)
(* second ranked match upstream, which is new to the tracker when the      *)
(* player was added before it.                                             *)
(***************************************************************************)
InitCommands ==
    /\ lpIn = NoArgs
    /\ lpOut = 0
    /\ lpDone = FALSE
    /\ riotRank = [p \in Players |-> Gold4]
    /\ riotLatest = [p \in Players |-> IF p = "p1" THEN SecondMatch ELSE FirstMatch]
    /\ summoners \in {{"p2"}, DefaultSummoners}
    /\ guild_summoner_associations \in {{<<"g1", "p2">>}, DefaultAssociations}
    /\ \A a \in guild_summoner_associations : a[2] \in summoners
    /\ LET d == TrackDB(Players \ summoners)
       IN  /\ league = d.league
           /\ matches = d.matches
           /\ lp_history = d.lp_history
           /\ placement = d.placement
    /\ sent = [g \in Guilds |-> <<>>]
    /\ events = 0
    /\ failures = 0
    /\ last = NoCycle("init", "p1")
    /\ retry = NoRetry
    /\ request = NoRequest
    /\ gate = NoGate
    /\ track = NewTracker
    /\ adding = NoAdding
    /\ poll = NoPoll
    /\ clock = NoClock
    /\ placement_games = NoSeasons

\* processSingleSummoner for one name of /add.  A player that has a row is
\* associated (GetSummonerUUIDAndAssociate) and nothing else happens; for a
\* new one AddSummoner stores the row, the league entry GetSummonerRank
\* gave and the association, and addLastMatchData is started with a copy
\* of that league entry.
processSingleSummoner(g, p) ==
    /\ Alive(track)
    /\ guild_summoner_associations' = guild_summoner_associations \cup {<<g, p>>}
    /\ IF p \in summoners
       THEN UNCHANGED <<summoners, league, adding>>
       ELSE /\ summoners' = summoners \cup {p}
            /\ league' = [league EXCEPT ![p] = <<riotRank[p]>>]
            /\ adding' = adding \cup {[p |-> p, rankInfo |-> riotRank[p]]}
    /\ UNCHANGED <<riotRank, riotLatest, matches, lp_history, placement, sent,
                   events, failures, last, lpVars, retryVars, trackVars, seasonVars, poll>>

\* addLastMatchData: the latest ranked match upstream, if the player has
\* one and the call gives it, goes through AddMatchAndGetLPChange with the
\* league entry /add fetched.
addLastMatchData(a, fetched) ==
    LET r == IF fetched /\ riotLatest[a.p] # NoMatch
             THEN AddMatchAndGetLPChange(DB, a.p, riotLatest[a.p], a.rankInfo.lp,
                                         a.rankInfo.rank, a.rankInfo.tier, "none").db
             ELSE DB
    IN  /\ Alive(track)
        /\ a \in adding
        /\ adding' = adding \ {a}
        /\ league' = r.league
        /\ matches' = r.matches
        /\ lp_history' = r.lp_history
        /\ placement' = r.placement
        /\ UNCHANGED <<riotRank, riotLatest, sent, events, failures, last, lpVars,
                       retryVars, trackVars, summoners, guild_summoner_associations,
                       seasonVars, poll>>

\* handleRemove for one name: deleteSummonerSQL deletes the association of
\* the guild with the player; no row deleted is ErrSummonerNotFound.
handleRemove(g, p) ==
    /\ Alive(track)
    /\ guild_summoner_associations' = guild_summoner_associations \ {<<g, p>>}
    /\ UNCHANGED <<riotRank, riotLatest, league, matches, lp_history, placement,
                   sent, events, failures, last, lpVars, retryVars, trackVars,
                   summoners, adding, seasonVars, poll>>

\* handleReset: removeAllSummonersFromGuildSQL deletes the associations of
\* the guild.
handleReset(g) ==
    /\ Alive(track)
    /\ guild_summoner_associations' = {a \in guild_summoner_associations : a[1] # g}
    /\ UNCHANGED <<riotRank, riotLatest, league, matches, lp_history, placement,
                   sent, events, failures, last, lpVars, retryVars, trackVars,
                   summoners, adding, seasonVars, poll>>

NextCommands ==
    \/ Tick
    \/ \E load \in Loads : selectTick(load)
    \/ Dispatch
    \/ \E unit \in Players \X (1..MaxCycles) : finishUnit(unit, "nil")
    \/ endCycle
    \/ \E g \in Guilds, p \in Players : processSingleSummoner(g, p)
    \/ \E a \in adding, fetched \in BOOLEAN : addLastMatchData(a, fetched)
    \/ \E g \in Guilds, p \in Players : handleRemove(g, p)
    \/ \E g \in Guilds : handleReset(g)

SpecCommands == InitCommands /\ [][NextCommands]_vars


\* The players whose reconciliation was started in poll cycle c.
Polled(c) ==
    {p \in Players :
        \E i \in DOMAIN track.log[p] :
            track.log[p][i].cycle = c /\ track.log[p][i].ev = "read"}

\* The players of the list the last successful load gave.
Loaded == {track.summoners[i] : i \in DOMAIN track.summoners}

(***************************************************************************)
(* C31: the list a cycle works on holds, once each, the players that had   *)
(* at least one guild association when the cycle loaded it: a             *)
(* reconciliation is started only for a player of that list, a cycle that  *)
(* ran to its end started one for every player of it, an empty list starts *)
(* no cycle and no reconciliation, and a player that was polled once keeps *)
(* its rows in summoners and league_entries whatever /remove and /reset    *)
(* did since.                                                              *)
(***************************************************************************)
C31_CycleReconcilesTracked ==
    /\ Loaded = {p \in Players : \E g \in Guilds : <<g, p>> \in track.seen}
    /\ Len(track.summoners) = Cardinality(Loaded)
    /\ track.summoners # <<>> => Polled(track.cycle) \subseteq Loaded
    /\ \A unit \in track.inflight : unit[1] \in Loaded /\ unit[2] = track.cycle
    /\ (track.pc = "select" /\ track.cycle > 0 /\ track.summoners # <<>>)
          => Polled(track.cycle) = Loaded
    /\ track.pc = "cycle" => track.summoners # <<>>
    /\ track.summoners = <<>> => track.inflight = {}
    /\ \A p \in Players :
          track.log[p] # <<>> => p \in summoners /\ league[p] # <<>>

\* The first cycle polled the second player alone; it was then removed from
\* its only guild and the first player added; the second cycle polled the
\* first player alone, and the second player still has its row.
C31_Witness ==
    /\ track.cycle = 2
    /\ track.pc = "select"
    /\ Polled(1) = {"p2"}
    /\ Polled(2) = {"p1"}
    /\ "p2" \in summoners
    /\ league["p2"] # <<>>
    /\ \A g \in Guilds : <<g, "p2">> \notin guild_summoner_associations


\* The embeds about player p delivered to guild g so far.
EmbedsFor(g, p) == SelectSeq(sent[g], LAMBDA e : e.player = p)

\* The lp_history rows the tracker wrote for p in poll cycle c.
RowsOfCycle(p, c) ==
    Cardinality({i \in DOMAIN track.rowCycle[p] : track.rowCycle[p][i] = c})

(***************************************************************************)
(* C32: a player is reconciled at most once in a poll cycle, however many  *)
(* guilds watch it; a cycle writes at most one lp_history row for it, and  *)
(* the row of the player's new match is the same row (delta, points, tier, *)
(* division) whatever guilds watch; the embed of the cycle that wrote the  *)
(* row reached each guild of the list the player was loaded with exactly   *)
(* once and no other guild.                                                *)
(***************************************************************************)
C32_SharedRankState ==
    \A p \in Players :
        /\ \A c \in 1..MaxCycles :
              /\ Cardinality({i \in DOMAIN track.log[p] :
                                 track.log[p][i] = [cycle |-> c, ev |-> "read"]}) <= 1
              /\ RowsOfCycle(p, c) <= 1
        /\ \A i \in DOMAIN lp_history[p] :
              lp_history[p][i].match_id = riotLatest[p].id =>
                  lp_history[p][i] = [match_id |-> riotLatest[p].id, lp_change |-> 0,
                                      new_lp |-> riotRank[p].lp,
                                      tier |-> riotRank[p].tier,
                                      rank |-> riotRank[p].rank]
        /\ \A g \in Guilds :
              /\ Len(EmbedsFor(g, p)) <= 1
              /\ (track.summoners # <<>> /\ RowsOfCycle(p, track.cycle) = 1) =>
                    Len(EmbedsFor(g, p)) =
                        Cardinality({i \in DOMAIN track.guildIDs[p] :
                                        track.guildIDs[p][i] = g})

\* The first player, watched by both guilds when the cycle loaded it, had
\* its new match stored once and announced once in each guild; the second
\* player, watched by one guild, was polled in the same cycle.
C32_Witness ==
    /\ track.pc = "select"
    /\ track.cycle = 1
    /\ track.guildIDs["p1"] = <<"g1", "g2">>
    /\ RowsOfCycle("p1", 1) = 1
    /\ Len(EmbedsFor("g1", "p1")) = 1
    /\ Len(EmbedsFor("g2", "p1")) = 1
    /\ sent["g1"][1].match_id = SecondMatch.id
    /\ Len(track.log["p2"]) = 2


(***************************************************************************)
(* SpecSeason: placement_games with its season column, and the clock.      *)
(* IncrementPlacementGames and GetCurrentPlacementGames compute the season *)
(* string from time.Now() at each call and read or write the row of        *)
(* (summoner_id, season); the operators above are these two on the rows of *)
(* one season.  Time passes between the calls, over the dates on both      *)
(* sides of the three split boundaries.                                    *)
(***************************************************************************)
MaxIncrements == 3  \* calls of IncrementPlacementGames over a behaviour

\* GetCurrentSeason, on the year, month and day of now.
GetCurrentSeasonNoJanuaryRule(now) ==
    IF now.month < 5 \/ (now.month = 5 /\ now.day <= 24)
    THEN [Year |-> now.year, Split |-> 1]
    ELSE IF now.month < 9 \/ (now.month = 9 /\ now.day < 25)
    THEN [Year |-> now.year, Split |-> 2]
    ELSE [Year |-> now.year, Split |-> 3]

GetCurrentSeason(now) ==
    IF now.month = 1 /\ now.day < 10
    THEN [Year |-> now.year - 1, Split |-> 3]
    ELSE IF now.month < 5 \/ (now.month = 5 /\ now.day <= 24)
    THEN [Year |-> now.year, Split |-> 1]
    ELSE IF now.month < 9 \/ (now.month = 9 /\ now.day < 25)
    THEN [Year |-> now.year, Split |-> 2]
    ELSE [Year |-> now.year, Split |-> 3]

\* fmt.Sprintf("S%d S%d", s.Year, s.Split)
SeasonToString(season) ==
    "S" \o ToString(season.Year) \o " S" \o ToString(season.Split)

\* The dates the clock passes through, in order.
SampleDates ==
    <<[year |-> 2024, month |-> 1, day |-> 9],
      [year |-> 2024, month |-> 1, day |-> 10],
      [year |-> 2024, month |-> 5, day |-> 24],
      [year |-> 2024, month |-> 5, day |-> 25],
      [year |-> 2024, month |-> 9, day |-> 24],
      [year |-> 2024, month |-> 9, day |-> 25],
      [year |-> 2024, month |-> 12, day |-> 31],
      [year |-> 2025, month |-> 1, day |-> 9],
      [year |-> 2025, month |-> 1, day |-> 10]>>

\* The rows of one season as the tables of the storage layer.
SeasonView(table, season) ==
    [EmptyDB EXCEPT !.placement = [q \in Players |->
        IF \E r \in table : r.summoner = q /\ r.season = season
        THEN LET r == CHOOSE r \in table : r.summoner = q /\ r.season = season
             IN  <<[total_games |-> r.total_games, wins |-> r.wins,
                    losses |-> r.losses]>>
        ELSE <<>>]]

\* The upsert of IncrementPlacementGames, ON CONFLICT (summoner_id, season).
upsertPlacementGames(table, p, isWin, now) ==
    LET season == SeasonToString(GetCurrentSeason(now))
        r == IncrementPlacementGames(SeasonView(table, season), p, isWin)
        t == r.db.placement[p][1]
    IN  [err |-> r.err, season |-> season,
         table |-> IF r.err THEN table
                   ELSE {x \in table : ~(x.summoner = p /\ x.season = season)}
                        \cup {[summoner |-> p, season |-> season,
                               total_games |-> t.total_games, wins |-> t.wins,
                               losses |-> t.losses]}]

InitSeason ==
    /\ lpIn = NoArgs
    /\ lpOut = 0
    /\ lpDone = FALSE
    /\ riotRank = <<>>
    /\ riotLatest = <<>>
    /\ league = <<>>
    /\ matches = <<>>
    /\ lp_history = <<>>
    /\ placement = <<>>
    /\ sent = <<>>
    /\ events = 0
    /\ failures = 0
    /\ last = [op |-> "init"]
    /\ retry = NoRetry
    /\ request = NoRequest
    /\ track = NoTrack
    /\ gate = NoGate
    /\ summoners = DefaultSummoners
    /\ guild_summoner_associations = DefaultAssociations
    /\ adding = NoAdding
    /\ poll = NoPoll
    /\ clock \in {[pc |-> "running", at |-> i, increments |-> 0] : i \in {1, 2, 4}}
    /\ placement_games = {}

\* Time passes: the next call reads a later date.
AdvanceClock(j) ==
    /\ clock.pc = "running"
    /\ j \in DOMAIN SampleDates
    /\ j > clock.at
    /\ clock' = [clock EXCEPT !.at = j]
    /\ last' = [op |-> "clock"]
    /\ UNCHANGED <<lpVars, riotRank, riotLatest, league, matches, lp_history,
                   placement, sent, events, failures, retryVars, trackVars,
                   cmdVars, poll, placement_games>>

CallIncrementPlacementGames(p, isWin) ==
    LET now == SampleDates[clock.at]
        r == upsertPlacementGames(placement_games, p, isWin, now)
    IN  /\ clock.pc = "running"
        /\ clock.increments < MaxIncrements
        /\ clock' = [clock EXCEPT !.increments = @ + 1]
        /\ placement_games' = r.table
        /\ last' = [op |-> "increment", p |-> p, isWin |-> isWin, now |-> now,
                    season |-> r.season, err |-> r.err, pre |-> placement_games]
        /\ UNCHANGED <<lpVars, riotRank, riotLatest, league, matches, lp_history,
                       placement, sent, events, failures, retryVars, trackVars,
                       cmdVars, poll>>

CallGetCurrentPlacementGames(p) ==
    LET now == SampleDates[clock.at]
        season == SeasonToString(GetCurrentSeason(now))
    IN  /\ clock.pc = "running"
        /\ last' = [op |-> "get", p |-> p, now |-> now, season |-> season,
                    pre |-> placement_games,
                    status |-> GetCurrentPlacementGames(
                                   SeasonView(placement_games, season), p)]
        /\ UNCHANGED <<lpVars, riotRank, riotLatest, league, matches, lp_history,
                       placement, sent, events, failures, retryVars, trackVars,
                       cmdVars, poll, seasonVars>>

NextSeason ==
    \/ \E j \in DOMAIN SampleDates : AdvanceClock(j)
    \/ \E p \in Players, isWin \in BOOLEAN : CallIncrementPlacementGames(p, isWin)
    \/ \E p \in Players : CallGetCurrentPlacementGames(p)

SpecSeason == InitSeason /\ [][NextSeason]_vars

\* The season a date falls in, from the three start boundaries: 10 January,
\* 25 May, 25 September.
SeasonOfDate(month, day) ==
    LET o == month * 100 + day
    IN  IF o < 110 THEN "previous year, split 3"
        ELSE IF o < 525 THEN "split 1"
        ELSE IF o < 925 THEN "split 2"
        ELSE "split 3"

SeasonRows(table, p, season) ==
    {r \in table : r.summoner = p /\ r.season = season}

(***************************************************************************)
(* C33: every date falls in one season, with the splits starting on 10     *)
(* January, 25 May and 25 September; placement_games holds at most one row *)
(* per player and season; IncrementPlacementGames inserts the row of the   *)
(* season of the call with one game, or adds one game to it, and leaves    *)
(* every other row as it was; GetCurrentPlacementGames gives the row of    *)
(* the season of the call, or a zero tally.                                *)
(***************************************************************************)
C33_SeasonKeyedCounters ==
    /\ \A month \in 1..12, day \in 1..31 :
          LET season == GetCurrentSeason([year |-> 2024, month |-> month, day |-> day])
          IN  season = CASE SeasonOfDate(month, day) = "previous year, split 3"
                                -> [Year |-> 2023, Split |-> 3]
                         [] SeasonOfDate(month, day) = "split 1" -> [Year |-> 2024, Split |-> 1]
                         [] SeasonOfDate(month, day) = "split 2" -> [Year |-> 2024, Split |-> 2]
                         [] OTHER -> [Year |-> 2024, Split |-> 3]
    /\ \A r1, r2 \in placement_games :
          (r1.summoner = r2.summoner /\ r1.season = r2.season) => r1 = r2
    /\ (last.op = "increment" /\ ~last.err) =>
          LET old == SeasonRows(last.pre, last.p, last.season)
              new == SeasonRows(placement_games, last.p, last.season)
              w == IF last.isWin THEN 1 ELSE 0
          IN  /\ placement_games \ new = last.pre \ old
              /\ Cardinality(new) = 1
              /\ \A n \in new :
                    IF old = {}
                    THEN n.total_games = 1 /\ n.wins = w /\ n.losses = 1 - w
                    ELSE \A o \in old :
                            /\ n.total_games = o.total_games + 1
                            /\ n.wins = o.wins + w
                            /\ n.losses = o.losses + (1 - w)
    /\ last.op = "get" =>
          LET rows == SeasonRows(last.pre, last.p, last.season)
          IN  /\ placement_games = last.pre
              /\ IF rows = {} THEN last.status = NoTally
                 ELSE \A r \in rows :
                         last.status = [total_games |-> r.total_games,
                                        wins |-> r.wins, losses |-> r.losses]

\* The player had two games counted in split 1 of 2024; the first game
\* counted after 25 May made a row of its own with one game, and the row of
\* split 1 is as it was.
C33_Witness ==
    /\ last.op = "increment"
    /\ last.p = "p1"
    /\ last.season = "S2024 S2"
    /\ [summoner |-> "p1", season |-> "S2024 S1", total_games |-> 2,
        wins |-> 1, losses |-> 1] \in placement_games
    /\ [summoner |-> "p1", season |-> "S2024 S2", total_games |-> 1,
        wins |-> 1, losses |-> 0] \in placement_games


(***************************************************************************)
(* SpecPoll: checkSummonerUpdates with its reads apart in time.  It reads  *)
(* the stored rank and fetches the rank upstream (GetSummonerRank); later  *)
(* it looks for a new match (checkForNewMatch) and reconciles with the     *)
(* rank it fetched before.  Upstream can finish a game between the two.    *)
(* Every upstream change here is a completed game that moves the rank and  *)
(* the latest match id together.                                           *)
(***************************************************************************)
\* GetPreviousRank and GetSummonerRank of one checkSummonerUpdates.
fetchRank(p) ==
    /\ poll = NoPoll
    /\ league[p] # <<>>
    /\ Len(lp_history[p]) < MaxHistory
    /\ poll' = [pc |-> "fetched", p |-> p, prev |-> GetPreviousRank(DB, p),
                cur |-> riotRank[p]]
    /\ last' = NoCycle("fetchRank", p)
    /\ UNCHANGED <<riotRank, riotLatest, league, matches, lp_history, placement,
                   sent, events, failures, lpVars, retryVars, trackVars,
                   cmdVars, seasonVars>>

\* checkForNewMatch and what follows it, with the ranks read before.
checkForNewMatch ==
    LET p == poll.p
        m == riotLatest[p]
        found == GetNewMatchForSummoner(m, GetLastMatchID(DB, p))
        r == reconcile(DB, p, found, m, poll.prev, poll.cur, "none")
    IN  /\ poll # NoPoll
        /\ poll' = NoPoll
        /\ league' = r.db.league
        /\ matches' = r.db.matches
        /\ lp_history' = r.db.lp_history
        /\ placement' = r.db.placement
        /\ sent' = announceAll(sent, p, r.embeds, {})
        /\ last' = [op |-> "cycle", p |-> p, fail |-> "none", down |-> {},
                    prev |-> poll.prev, cur |-> poll.cur, found |-> found,
                    match |-> m, pre |-> DB, preSent |-> sent, err |-> "none"]
        /\ UNCHANGED <<riotRank, riotLatest, events, failures, lpVars, retryVars,
                       trackVars, cmdVars, seasonVars>>

NextPoll ==
    \/ \E p \in Players : fetchRank(p)
    \/ checkForNewMatch
    \/ \E p \in Players, g \in Durations \X BOOLEAN, r \in RankSamples :
          /\ g \in GamesOf(p)
          /\ r \in RanksOf(p)
          /\ r # riotRank[p]
          /\ PlayGame(p, g[1], g[2], r)

SpecPoll == Init /\ [][NextPoll]_vars

(***************************************************************************)
(* C34 as stated: with every rank change upstream being a completed game,  *)
(* the delta of a game is on the lp_history row that carries the game's    *)
(* match id: no player has a row of its latest match with delta 0 and,     *)
(* after it, a "DODGE" row with a delta.                                   *)
(***************************************************************************)
C34_DeltaOnMatchRow ==
    \A p \in Players :
        ~ \E i, j \in DOMAIN lp_history[p] :
              /\ i < j
              /\ lp_history[p][i].match_id = riotLatest[p].id
              /\ lp_history[p][i].lp_change = 0
              /\ lp_history[p][j].match_id = "DODGE"
              /\ lp_history[p][j].lp_change # 0


(***************************************************************************)
(* C35 as stated: for every player and every match id of a real match,     *)
(* lp_history holds at most one row and each guild was sent at most one    *)
(* embed, however the poll cycles and the addLastMatchData goroutine of    *)
(* /add interleave.                                                        *)
(***************************************************************************)
C35_OneRowPerMatch ==
    \A p \in Players : \A k \in DOMAIN MatchIDs :
        /\ Cardinality({i \in DOMAIN lp_history[p] :
                           lp_history[p][i].match_id = MatchIDs[k]}) <= 1
        /\ \A g \in Guilds :
              Cardinality({i \in DOMAIN sent[g] :
                              /\ sent[g][i].player = p
                              /\ sent[g][i].match_id = MatchIDs[k]}) <= 1


(***************************************************************************)
(* SpecQuiet: successful poll cycles against an upstream whose matches     *)
(* carry the end timestamp the API reports for them (gameEndTimestamp is   *)
(* stored as received; the latest match is the first id of the match list, *)
(* whatever its timestamp).                                                *)
(***************************************************************************)
\* gameEndTimestamp of a match, as upstream reports it, on the ordinal scale
\* of the stored matches: before, equal to or after the end of a stored one.
EndTimestamps == {0, 1, 2}

\* The position of a match id in the order the games were played.
IdIndex(id) ==
    IF id = "" THEN 0 ELSE CHOOSE k \in DOMAIN MatchIDs : MatchIDs[k] = id

\* A player finishes a ranked game; upstream reports it as the latest match
\* with the end timestamp endTs.
PlayGameAt(p, duration, win, newRank, endTs) ==
    /\ events < MaxEvents
    /\ IdIndex(riotLatest[p].id) < MaxMatches
    /\ riotLatest' = [riotLatest EXCEPT ![p] =
            [id |-> MatchIDs[IdIndex(@.id) + 1], endTs |-> endTs,
             duration |-> duration, win |-> win]]
    /\ riotRank' = [riotRank EXCEPT ![p] = newRank]
    /\ events' = events + 1
    /\ last' = NoCycle("upstream", p)
    /\ UNCHANGED <<league, matches, lp_history, placement, sent, failures, lpVars,
                   retryVars, trackVars, cmdVars, seasonVars, poll>>

NextQuiet ==
    \/ \E p \in Players : checkSummonerUpdates(p, "none", {})
    \/ \E p \in Players, g \in Durations \X BOOLEAN, r \in RankSamples,
          endTs \in EndTimestamps :
          g \in GamesOf(p) /\ r \in RanksOf(p) /\ PlayGameAt(p, g[1], g[2], r, endTs)
    \/ \E p \in Players, r \in RankSamples : r \in RanksOf(p) /\ RankMove(p, r)

SpecQuiet == Init /\ [][NextQuiet]_vars

(***************************************************************************)
(* C36 as stated: right after a poll cycle of a player whose storage       *)
(* writes all succeeded, a cycle against the same upstream state finds no  *)
(* new match and no rank change, whatever the end timestamps of the        *)
(* stored matches.                                                         *)
(***************************************************************************)
C36_QuietOnUnchangedInput ==
    (LastWasCycle /\ last.fail = "none" /\ ~RejectedAtCap) =>
        /\ ~GetNewMatchForSummoner(riotLatest[last.p], GetLastMatchID(DB, last.p))
        /\ ~hasRankChanged(GetPreviousRank(DB, last.p), riotRank[last.p])


(***************************************************************************)
(* SpecLadder: successful poll cycles of players who climb and fall        *)
(* inside one division, move to another one, or move between the apex      *)
(* tiers, over several upstream changes.                                   *)
(***************************************************************************)
MaxMoves == 2       \* upstream changes (games, rank moves) in SpecLadder

\* What GetSummonerRank reports: three league-point values of one division,
\* the next division, and two apex tiers.
LadderSamples ==
    {[tier |-> "GOLD", rank |-> "IV", lp |-> 55],
     [tier |-> "GOLD", rank |-> "IV", lp |-> 80],
     [tier |-> "GOLD", rank |-> "IV", lp |-> 95],
     [tier |-> "GOLD", rank |-> "III", lp |-> 20],
     [tier |-> "MASTER", rank |-> "I", lp |-> 100],
     [tier |-> "GRANDMASTER", rank |-> "I", lp |-> 150]}

\* The second player stays in one division.
LadderOf(p) ==
    IF p = "p1" THEN LadderSamples
    ELSE {[tier |-> "GOLD", rank |-> "IV", lp |-> 55],
          [tier |-> "GOLD", rank |-> "IV", lp |-> 80]}

InitLadder ==
    /\ lpIn = NoArgs
    /\ lpOut = 0
    /\ lpDone = FALSE
    /\ riotRank \in [Players -> LadderSamples]
    /\ \A p \in Players : riotRank[p] \in LadderOf(p)
    /\ riotLatest = [p \in Players |-> FirstMatch]
    /\ LET d == AddedDB(riotRank, riotLatest, [p \in Players |-> NoTally])
       IN  /\ league = d.league
           /\ matches = d.matches
           /\ lp_history = d.lp_history
           /\ placement = d.placement
    /\ sent = [g \in Guilds |-> <<>>]
    /\ events = 0
    /\ failures = 0
    /\ last = NoCycle("init", "p1")
    /\ retry = NoRetry
    /\ request = NoRequest
    /\ track = NoTrack
    /\ gate = NoGate
    /\ summoners = DefaultSummoners
    /\ guild_summoner_associations = DefaultAssociations
    /\ adding = NoAdding
    /\ poll = NoPoll
    /\ clock = NoClock
    /\ placement_games = NoSeasons

\* A player finishes a ranked game (up to MaxMatches games after the one /add
\* stored); upstream reports newRank afterwards.
PlayLadderGame(p, win, newRank) ==
    /\ events < MaxMoves
    /\ riotLatest[p].endTs < MaxMatches + 1
    /\ riotLatest' = [riotLatest EXCEPT ![p] =
            [id |-> MatchIDs[@.endTs + 1], endTs |-> @.endTs + 1,
             duration |-> RemakeDuration, win |-> win]]
    /\ riotRank' = [riotRank EXCEPT ![p] = newRank]
    /\ events' = events + 1
    /\ last' = NoCycle("upstream", p)
    /\ UNCHANGED <<league, matches, lp_history, placement, sent, failures, lpVars,
                   retryVars, trackVars, cmdVars, seasonVars, poll>>

\* The rank moves with no game recorded.
LadderMove(p, newRank) ==
    /\ events < MaxMoves
    /\ newRank # riotRank[p]
    /\ riotRank' = [riotRank EXCEPT ![p] = newRank]
    /\ events' = events + 1
    /\ last' = NoCycle("upstream", p)
    /\ UNCHANGED <<riotLatest, league, matches, lp_history, placement, sent,
                   failures, lpVars, retryVars, trackVars, cmdVars, seasonVars, poll>>

NextLadder ==
    \/ \E p \in Players : checkSummonerUpdates(p, "none", {})
    \/ \E p \in Players, win \in BOOLEAN, r \in LadderSamples :
          r \in LadderOf(p) /\ PlayLadderGame(p, win, r)
    \/ \E p \in Players, r \in LadderSamples : r \in LadderOf(p) /\ LadderMove(p, r)

SpecLadder == InitLadder /\ [][NextLadder]_vars

\* The sum of lp_change over the rows i..Len(rows) of an lp_history.
RECURSIVE SumLPChange(_, _)
SumLPChange(rows, i) ==
    IF i > Len(rows) THEN 0 ELSE rows[i].lp_change + SumLPChange(rows, i + 1)

\* The ranks a player was seen at: the snapshot of /add (row 1) and the
\* snapshots the cycles wrote.
SeenAt(p) == {[tier |-> lp_history[p][i].tier, rank |-> lp_history[p][i].rank] :
                 i \in DOMAIN lp_history[p]}

\* The player never left one tier and division, or never left the apex tiers.
StayedInside(p) ==
    \/ Cardinality(SeenAt(p)) = 1
    \/ \A s \in SeenAt(p) : s.tier \in ApexTiers

(***************************************************************************)
(* C37: for a player whose observed rank stays inside one tier and         *)
(* division (or inside the apex tiers) over successful cycles, the sum of  *)
(* lp_change over the lp_history rows those cycles wrote equals the league *)
(* points stored now minus the league points stored before the first       *)
(* cycle, whatever mix of ranked-match and inferred-skip cycles occurred.  *)
(***************************************************************************)
C37_DeltasTelescope ==
    \A p \in Players :
        StayedInside(p) =>
            SumLPChange(lp_history[p], 2) = league[p][1].lp - lp_history[p][1].new_lp

\* Reached: a player took a ranked-match row and an inferred-skip row inside
\* one division, with league points that moved both times (and a second
\* case: two rows between the apex tiers).
C37_Witness ==
    \E p \in Players :
        /\ Len(lp_history[p]) = 3
        /\ StayedInside(p)
        /\ {lp_history[p][2].match_id, lp_history[p][3].match_id} = {"DODGE", MatchIDs[2]}
        /\ lp_history[p][2].lp_change # 0
        /\ lp_history[p][3].lp_change # 0
        /\ league[p][1].lp # lp_history[p][1].new_lp


(***************************************************************************)
(* C38 as stated: after every successful cycle that wrote an lp_history    *)
(* row, the newest lp_history row of the player carries the (tier,         *)
(* division, LP) of the player's league_entries row, the cycle that        *)
(* completes the placements included.                                      *)
(***************************************************************************)
C38_NewestRowIsLeagueEntry ==
    (LastWasCycle /\ last.fail = "none"
        /\ Len(lp_history[last.p]) > Len(last.pre.lp_history[last.p])) =>
        LET row == lp_history[last.p][Len(lp_history[last.p])]
        IN  [tier |-> row.tier, rank |-> row.rank, lp |-> row.new_lp]
                = league[last.p][1]


\* The position in the match list of the newest match stored for p before
\* the last cycle (0 when none was stored).
NewestStoredBefore(p) ==
    IF last.pre.matches[p] = {} THEN 0
    ELSE CHOOSE k \in DOMAIN MatchIDs :
            /\ \E q \in last.pre.matches[p] : q.id = MatchIDs[k]
            /\ \A q \in last.pre.matches[p] : IdIndex(q.id) <= k

\* The games the last cycle skipped: finished after the newest stored match
\* and before the upstream latest one.
SkippedGames == {MatchIDs[k] : k \in (NewestStoredBefore(last.p) + 1) ..
                                      (IdIndex(last.match.id) - 1)}

(***************************************************************************)
(* C39: a poll cycle stores at most one match of the player, the upstream  *)
(* latest one; it is newer than every match stored before, so the games    *)
(* that finished between two polls are not stored by that cycle and cannot *)
(* be stored by a later one; and on the ranked path the row of the stored  *)
(* match carries the whole movement from the stored rank to the fetched    *)
(* rank as its delta.                                                      *)
(***************************************************************************)
C39_OnlyLatestMatchStored ==
    LastWasCycle =>
        /\ MatchesAdded \subseteq {riotLatest[last.p]}
        /\ \A m \in MatchesAdded : IdIndex(m.id) > NewestStoredBefore(last.p)
        /\ \A id \in SkippedGames :
              /\ \A q \in matches[last.p] : q.id # id
              /\ \A i \in DOMAIN lp_history[last.p] : lp_history[last.p][i].match_id # id
        /\ (MatchesAdded # {} /\ ~wasInPlacements(last.prev)) =>
              /\ Len(RowsAdded) = 1
              /\ RowsAdded[1].match_id = riotLatest[last.p].id
              /\ RowsAdded[1].lp_change = LadderDelta(last.prev[1], last.cur)
              /\ RowsAdded[1].new_lp = last.cur.lp

\* Reached: two games finished since the previous poll, the rank moved over
\* both, and the cycle stored the later one only.
C39_Witness ==
    /\ LastWasCycle
    /\ SkippedGames # {}
    /\ MatchesAdded = {riotLatest[last.p]}
    /\ last.cur # last.prev[1]
    /\ RowsAdded[1].lp_change # 0


(***************************************************************************)
(* SpecPlacement: the poll cycles of a player added while UNRANKED with no *)
(* ranked game of the season yet: InitializePlacementGames seeded the      *)
(* tally (0, 0, 0) and no match is stored.                                 *)
(***************************************************************************)
InitPlacement ==
    /\ Init
    /\ placement["p1"] = <<NoTally>>
    /\ matches["p1"] = {}

SpecPlacement == InitPlacement /\ [][Next]_vars

\* The counted (non-remake) matches stored for p.
CountedStored(p) == {m \in matches[p] : m.duration >= RemakeDuration}

(***************************************************************************)
(* C40 as stated, for a tally seeded (0, 0, 0): total_games counts each    *)
(* distinct counted match processed on the placement path once, so it is   *)
(* at least the number of counted matches stored and at most the number of *)
(* games upstream has reported for the player, and it equals wins plus     *)
(* losses; also when a cycle failed in AddPlacementMatch after             *)
(* IncrementPlacementGames and the next cycle found the match again.       *)
(***************************************************************************)
C40_CountedOncePerMatch ==
    placement["p1"] # <<>> =>
        /\ placement["p1"][1].total_games >= Cardinality(CountedStored("p1"))
        /\ placement["p1"][1].total_games <= IdIndex(riotLatest["p1"].id)
        /\ placement["p1"][1].total_games
              = placement["p1"][1].wins + placement["p1"][1].losses

====
